---- MODULE Spec2Model ----
(***************************************************************************)
(* Model of the satellite research pipeline: the eight topic bots          *)
(* (basic.py, cost.py, tech.py, gpt_user.py, gpt_purpose.py,               *)
(* gpt_frugal.py, gpt_numeric.py, gpt_tech.py) and the record store        *)
(* (data_manager.py).                                                      *)
(*                                                                         *)
(* Text is modelled as a sequence of atoms.  An agent output is a sequence *)
(* of output atoms (a fence marker, a JSON document, free text, ...); an   *)
(* observation is a sequence of word tokens.  Every value of a record is a *)
(* string: the Python int 1 is "1", a float is its decimal text.           *)
(***************************************************************************)
EXTENDS Naturals, Integers, Sequences, FiniteSets, TLC

VARIABLES
    topic,      \* which bot runs (the module name of the bot)
    name,       \* the satellite_name argument of process_satellite
    pc,         \* position of the run
    calls,      \* the outcomes of the agent.invoke calls made so far, in order
    attempt,    \* what the last _process_with_retry attempt ended with
    result,     \* what process_satellite returned
    mtopic,     \* trace mining: the bot whose _extract_data_from_steps runs
    mtrace,     \* trace mining: the intermediate_steps argument
    mi,         \* trace mining: number of steps the for loop has consumed
    mrec,       \* trace mining: extracted_data
    mpc,        \* trace mining: "loop", "returned" or "caught"
    data,       \* record store: self.data of the SatelliteDataManager
    file,       \* record store: the content of satellite_data.json
    log,        \* the operations made so far on the store or in the application
    got,        \* record store: what the last operation returned
    session,    \* application: satellite_data and gpt_data of st.session_state
    loaded,     \* application: the keys of st.session_state.data_loaded
    selected,   \* application: st.session_state.satellite_name
    current,    \* application: st.session_state.current_satellites
    pending,    \* application: the put the script run of a Run button has yet to make
    fallbacks,  \* the records _create_fallback_response returned so far
    waits,      \* retry policy: the exponent convention and the waits computed so far
    handles,    \* concurrent puts: each store handle's key, position and self.data
    export      \* sheet upload: the sheet, the session's data, the row and the result

vars == <<topic, name, pc, calls, attempt, result, mtopic, mtrace, mi, mrec, mpc,
          data, file, log, got, session, loaded, selected, current, pending,
          fallbacks, waits, handles, export>>
runVars == <<topic, name, pc, calls, attempt, result>>
mineVars == <<mtopic, mtrace, mi, mrec, mpc>>
storeVars == <<data, file, log, got>>
appVars == <<session, loaded, selected, current, pending>>

----------------------------------------------------------------------------
(* Bounds of the model *)

MaxOutLen == 3      \* atoms of an agent output before the optional trailing text
MaxTraceLen == 2    \* steps of a mined trace below the iteration cap

(* Program constants *)

StepCap == 10       \* len(intermediate_steps) >= 10
AttemptsLong == 5   \* stop_after_attempt(5): basic.py, tech.py
AttemptsShort == 3  \* stop_after_attempt(3): the other six bots
WaitMultiplier == 1 \* wait_exponential(multiplier=1, ...)
WaitMin == 4        \* wait_exponential(..., min=4, ...)
WaitMax == 60       \* wait_exponential(..., max=60)

----------------------------------------------------------------------------
(* Generic helpers *)

Range(s) == {s[i] : i \in DOMAIN s}

SeqsUpTo(S, n) == UNION {[1..k -> S] : k \in 0..n}

NA == "NA"

----------------------------------------------------------------------------
(* Schemas: _initialize_schema of each bot, in declared order *)

Topics == {"basic", "cost", "tech", "gpt_user", "gpt_purpose", "gpt_frugal",
           "gpt_numeric", "gpt_tech"}

Schema(t) ==
    CASE t = "basic" ->
            <<"altitude", "altitude_source", "orbital_life_years",
              "orbital_life_source", "launch_orbit_classification",
              "orbit_classification_source", "number_of_payloads",
              "payloads_source">>
      [] t = "cost" ->
            <<"launch_cost", "launch_cost_source", "launch_vehicle",
              "launch_vehicle_source", "launch_date", "launch_date_source",
              "launch_site", "launch_site_source", "launch_mass",
              "launch_mass_source", "launch_success", "launch_success_source",
              "vehicle_reusability", "reusability_details",
              "reusability_source", "mission_cost", "mission_cost_source">>
      [] t = "tech" ->
            <<"satellite_type", "satellite_type_source",
              "satellite_application", "application_source", "sensor_specs",
              "sensor_specs_source", "technological_breakthroughs",
              "breakthrough_source">>
      [] t = "gpt_user" ->
            <<"user_category_number", "user_description", "user_source_link">>
      [] t = "gpt_purpose" ->
            <<"purpose", "purpose_category_number", "purpose_description",
              "purpose_source_link", "sdg_category",
              "sdg_category_identification_numbers", "sdg_description",
              "sdg_source_link">>
      [] t = "gpt_frugal" ->
            <<"frugal", "development_cost_efficiency",
              "development_cost_efficiency_description",
              "development_cost_efficiency_source",
              "operational_cost_efficiency",
              "operational_cost_efficiency_description",
              "operational_cost_efficiency_source", "labour_cost_efficiency",
              "labour_cost_efficiency_description",
              "labour_cost_efficiency_source", "frugal_innovation_design",
              "frugal_innovation_design_description",
              "frugal_innovation_design_source">>
      [] t = "gpt_numeric" ->
            <<"return_on_investment",
              "data_of_revenue_from_satellite_launch_musd",
              "return_on_investment_description",
              "return_on_investment_source">>
      [] t = "gpt_tech" ->
            <<"hardware", "sensors", "breakthrough_tech", "tech_source_link">>

Fields(t) == Range(Schema(t))

(* The literal {"f": "NA", ...} over the schema's fields that every bot      *)
(* writes out in _extract_data_from_steps and in process_satellite.         *)
AllNA(t) == [f \in Fields(t) |-> NA]

(* d[k] = v on a dict: the key is added or overwritten. *)
SetKey(d, k, v) == [x \in (DOMAIN d) \cup {k} |-> IF x = k THEN v ELSE d[x]]

(* CreateFallbackResponse with the reason written into the schema's first   *)
(* field as well: the variant under which two fallback records would differ *)
(* in a schema field.                                                       *)
CreateFallbackResponseReasonInField(t, error_reason) ==
    SetKey(SetKey(AllNA(t), "error", error_reason), Schema(t)[1], error_reason)

(* _create_fallback_response: basic.py returns the bare all-"NA" literal,    *)
(* the other seven add "error": error_reason.                               *)
CreateFallbackResponse(t, error_reason) ==
    IF t = "basic" THEN AllNA(t)
    ELSE SetKey(AllNA(t), "error", error_reason)

----------------------------------------------------------------------------
(* Observation text.  An observation is a sequence of word tokens; its      *)
(* Python string is the tokens joined by single spaces.  The tables below   *)
(* tabulate, token by token, the string primitives the mining rules use:    *)
(* str.lower, the in substring test, and     the pieces of the regular        *)
(* expressions.  A whitespace token ("\n") only ever leads an observation.  *)

Lower(tok) ==
    CASE tok = "Altitude" -> "altitude"
      [] tok = "Atlas" -> "atlas"
      [] tok = "Falcon" -> "falcon"
      [] tok = "ISRO" -> "isro"
      [] tok = "LEO" -> "leo"
      [] tok = "Launch cost" -> "launch cost"
      [] tok = "ROI" -> "roi"
      [] tok = "SpaceX" -> "spacex"
      [] OTHER -> tok

Subs(tok) ==
    CASE tok = "altitude" -> {"altitude"}
      [] tok = "application" -> {"application"}
      [] tok = "commercial" -> {"commercial"}
      [] tok = "communication" -> {"communication"}
      [] tok = "development cost" -> {"development cost"}
      [] tok = "earth observation" -> {"earth observation"}
      [] tok = "economic" -> {"economic", "no"}
      [] tok = "efficient" -> {"efficient"}
      [] tok = "environmental" -> {"environmental"}
      [] tok = "expendable" -> {"expendable"}
      [] tok = "fail" -> {"fail"}
      [] tok = "frugal" -> {"frugal"}
      [] tok = "government" -> {"government"}
      [] tok = "hardware" -> {"hardware"}
      [] tok = "indigenous" -> {"no", "indigenous"}
      [] tok = "innovative" -> {"no", "innovative"}
      [] tok = "km" -> {"km"}
      [] tok = "labour cost" -> {"labour cost"}
      [] tok = "launch cost" -> {"launch cost"}
      [] tok = "launch date" -> {"launch date"}
      [] tok = "launch mass" -> {"launch mass"}
      [] tok = "launch site" -> {"launch site"}
      [] tok = "launch success" -> {"launch success", "success"}
      [] tok = "launch vehicle" -> {"launch vehicle"}
      [] tok = "leo" -> {"leo"}
      [] tok = "low cost" -> {"low cost"}
      [] tok = "military" -> {"military"}
      [] tok = "mission" -> {"mission"}
      [] tok = "mission cost" -> {"mission cost", "mission"}
      [] tok = "navigation" -> {"navigation"}
      [] tok = "no" -> {"no"}
      [] tok = "not reusable" -> {"reusab", "reusable", "not reusable", "no"}
      [] tok = "operated by" -> {"operated by"}
      [] tok = "operational cost" -> {"operational cost"}
      [] tok = "operator" -> {"operator"}
      [] tok = "orbit" -> {"orbit"}
      [] tok = "payload" -> {"payload"}
      [] tok = "platform" -> {"platform"}
      [] tok = "purpose" -> {"purpose"}
      [] tok = "return on investment" -> {"return on investment"}
      [] tok = "revenue" -> {"revenue"}
      [] tok = "roi" -> {"roi"}
      [] tok = "satellite type" -> {"satellite type"}
      [] tok = "sdg" -> {"sdg"}
      [] tok = "sensors" -> {"sensor"}
      [] tok = "technology" -> {"no", "technology"}
      [] tok = "users" -> {"user"}
      [] tok = "yes" -> {"yes"}
      [] OTHER -> {}

EndsKw(tok) ==
    CASE tok = "application" -> {"application"}
      [] tok = "hardware" -> {"hardware"}
      [] tok = "innovative" -> {"innovative"}
      [] tok = "launch date" -> {"launch date"}
      [] tok = "launch mass" -> {"launch mass"}
      [] tok = "launch site" -> {"launch site"}
      [] tok = "launch vehicle" -> {"launch vehicle"}
      [] tok = "mission" -> {"mission"}
      [] tok = "mission cost" -> {"mission cost"}
      [] tok = "operated by" -> {"operated by"}
      [] tok = "operator" -> {"operator"}
      [] tok = "payload" -> {"payload"}
      [] tok = "platform" -> {"platform"}
      [] tok = "purpose" -> {"purpose"}
      [] tok = "revenue" -> {"revenue"}
      [] tok = "roi" -> {"roi"}
      [] tok = "satellite type" -> {"satellite type"}
      [] tok = "sdg" -> {"sdg"}
      [] tok = "sensors" -> {"sensors"}
      [] tok = "technology" -> {"technology"}
      [] OTHER -> {}

UrlIn(tok) ==
    CASE tok = "http://a" -> "http://a"
      [] tok = "https://b" -> "https://b"
      [] OTHER -> ""

HasDollar(tok) == tok \in {"$5,000", "$7", "$9"}

AmountIn(tok) ==
    CASE tok = "$5,000" -> "$5,000"
      [] tok = "$7" -> "$7"
      [] tok = "$9" -> "$9"
      [] OTHER -> ""

NumPrefix(tok) ==
    CASE tok = "." -> "."
      [] tok = "1.2.3" -> "1.2.3"
      [] tok = "13" -> "13"
      [] tok = "2" -> "2"
      [] tok = "2.5" -> "2.5"
      [] tok = "2020" -> "2020"
      [] tok = "500" -> "500"
      [] tok = "550" -> "550"
      [] tok = "7" -> "7"
      [] tok = "9" -> "9"
      [] OTHER -> ""

FloatOf(s) ==
    CASE s = "13" -> "13.0"
      [] s = "2" -> "2.0"
      [] s = "2.5" -> "2.5"
      [] s = "2020" -> "2020.0"
      [] s = "500" -> "500.0"
      [] s = "550" -> "550.0"
      [] s = "7" -> "7.0"
      [] s = "9" -> "9.0"
      [] OTHER -> "ValueError"

IntPrefix(tok) ==
    CASE tok = "1.2.3" -> "1"
      [] tok = "13" -> "13"
      [] tok = "2" -> "2"
      [] tok = "2.5" -> "2"
      [] tok = "2020" -> "2020"
      [] tok = "500" -> "500"
      [] tok = "550" -> "550"
      [] tok = "7" -> "7"
      [] tok = "9" -> "9"
      [] OTHER -> ""

----------------------------------------------------------------------------
(* String primitives over token sequences *)

RECURSIVE Text(_)
(* The Python string of a token sequence: " ".join(tokens). *)
Text(toks) ==
    IF toks = <<>> THEN ""
    ELSE IF Len(toks) = 1 THEN toks[1]
    ELSE toks[1] \o " " \o Text(Tail(toks))

IsSpace(tok) == tok = "\n"

RECURSIVE LStrip(_)
LStrip(toks) ==
    IF toks # <<>> /\ IsSpace(Head(toks)) THEN LStrip(Tail(toks)) ELSE toks

RECURSIVE RStrip(_)
RStrip(toks) ==
    IF toks # <<>> /\ IsSpace(toks[Len(toks)])
    THEN RStrip(SubSeq(toks, 1, Len(toks) - 1)) ELSE toks

(* str.strip() *)
Strip(toks) == RStrip(LStrip(toks))

(* observation.lower() *)
ObsLower(obs) == [i \in DOMAIN obs |-> Lower(obs[i])]

(* kw in text *)
Contains(toks, kw) == \E i \in DOMAIN toks : kw \in Subs(toks[i])

SetMin(S) == CHOOSE x \in S : \A y \in S : x <= y

NoMatch == [ok |-> FALSE, val |-> ""]

Match(v) == [ok |-> TRUE, val |-> v]

(* The tokens from position j up to, not including, the first token of      *)
(* stops: what the class [^...]+ consumes from j.                           *)
RunFrom(toks, j, stops) ==
    LET halt == {e \in j..Len(toks) : toks[e] \in stops}
        last == IF halt = {} THEN Len(toks) ELSE SetMin(halt) - 1
    IN  SubSeq(toks, j, last)

(* re.search(r'(k1|k2|...)[:\s]+([^<stops>]+)', text): the leftmost keyword  *)
(* that is followed by a separator and at least one character outside       *)
(* stops; the value is the captured group after .strip().                   *)
ReCapture(toks, kws, stops) ==
    LET at == {i \in 1..(Len(toks) - 1) :
                  /\ EndsKw(toks[i]) \cap kws # {}
                  /\ RunFrom(toks, i + 1, stops) # <<>>}
    IN  IF at = {} THEN NoMatch
        ELSE Match(Text(Strip(RunFrom(toks, SetMin(at) + 1, stops))))

StopsLine == {".", ";", "\n"}     \* [^\.;\n]
StopsDot == {"."}                 \* [^\.]

(* re.search(r'https?://\S+', observation) *)
UrlSearch(obs) ==
    LET at == {i \in DOMAIN obs : UrlIn(obs[i]) # ""}
    IN  IF at = {} THEN NoMatch ELSE Match(UrlIn(obs[SetMin(at)]))

(* re.search(r'\$[\d,]+(?:\.\d+)?', observation) *)
AmountSearch(obs) ==
    LET at == {i \in DOMAIN obs : AmountIn(obs[i]) # ""}
    IN  IF at = {} THEN NoMatch ELSE Match(AmountIn(obs[SetMin(at)]))

(* re.search(r'kw[:\s]+([\d\.]+)', obs_lower) *)
NumCapture(toks, kw) ==
    LET at == {i \in 1..(Len(toks) - 1) :
                  kw \in EndsKw(toks[i]) /\ NumPrefix(toks[i + 1]) # ""}
    IN  IF at = {} THEN NoMatch ELSE Match(NumPrefix(toks[SetMin(at) + 1]))

RECURSIVE SdgNums(_, _)
(* re.findall(r'sdg\s*(\d+)', obs_lower), each match through int(): the     *)
(* numbers that follow an "sdg", from position i on, in order.              *)
SdgNums(toks, i) ==
    IF i >= Len(toks) THEN <<>>
    ELSE IF "sdg" \in EndsKw(toks[i]) /\ IntPrefix(toks[i + 1]) # ""
         THEN <<IntPrefix(toks[i + 1])>> \o SdgNums(toks, i + 1)
         ELSE SdgNums(toks, i + 1)

RECURSIVE JoinComma(_)
JoinComma(xs) ==
    IF xs = <<>> THEN ""
    ELSE IF Len(xs) = 1 THEN xs[1]
    ELSE xs[1] \o ", " \o JoinComma(Tail(xs))

(* The text of a Python list of ints. *)
ListText(xs) == "[" \o JoinComma(xs) \o "]"

----------------------------------------------------------------------------
(* Steps of a trace.  kind "text": a (action, observation) pair whose        *)
(* observation is a string; "nonstr": a pair whose observation is not a     *)
(* string; "short": a step with fewer than two elements; "unsized": a step  *)
(* that has no length (None, a number), on which len(step) raises.          *)

TextStep(obs) == [kind |-> "text", obs |-> obs]
NonStrStep == [kind |-> "nonstr", obs |-> <<>>]
ShortStep == [kind |-> "short", obs |-> <<>>]
UnsizedStep == [kind |-> "unsized", obs |-> <<>>]

(* The observations of the model, per bot, in a fixed order. *)
ObsList(t) ==
    CASE t = "basic" ->
            << <<"Altitude", "550", "km", ".">>,
               <<"LEO", "orbit", "http://a">>,
               <<"no", "data">> >>
      [] t = "cost" ->
            << <<"Launch cost", "$5,000", ".", "http://a">>,
               <<"launch cost", "$7", ";", "launch vehicle", "Falcon", ".", "https://b">>,
               <<"launch vehicle", "Atlas", ".">>,
               <<"launch success", "fail", ".">>,
               <<"\n", "not reusable", "expendable">>,
               <<"launch date", "2020", ";", "launch site", "kourou", ";", "launch mass", "500", ";", "mission cost", "$9", ".">> >>
      [] t = "tech" ->
            << <<"satellite type", "radar", ".">>,
               <<"application", "imaging", ".", "http://a">>,
               <<"no", "data">> >>
      [] t = "gpt_user" ->
            << <<"operated by", "ISRO", ".", "government">>,
               <<"\n", "military", "users", "http://a">>,
               <<"commercial", "operator", "SpaceX", ";", "https://b">>,
               <<"no", "data">> >>
      [] t = "gpt_purpose" ->
            << <<"communication", "mission", "relay", ".", "http://a">>,
               <<"\n", "navigation", "purpose", ".", "sdg", "9", "economic">>,
               <<"earth observation", "sdg", "13", "sdg", "2", "environmental", "https://b">>,
               <<"no", "data">> >>
      [] t = "gpt_frugal" ->
            << <<"frugal", "yes", "development cost", "efficient", "http://a">>,
               <<"frugal", "no", "operational cost", "high">>,
               <<"\n", "labour cost", "low cost", "indigenous", "https://b">> >>
      [] t = "gpt_numeric" ->
            << <<"ROI", "2.5", "revenue", "7", "http://a">>,
               <<"roi", "1.2.3">>,
               <<"\n", "return on investment", "high">>,
               <<"roi", "9">> >>
      [] t = "gpt_tech" ->
            << <<"hardware", "bus-x", ".", "sensors", "camera", ";", "http://a">>,
               <<"\n", "platform", ".", "payload">>,
               <<"innovative", "technology", "laser", ".">>,
               <<"no", "data">> >>

Observations(t) == Range(ObsList(t))

(* The steps a trace of bot t is made of. *)
Steps(t) ==
    {TextStep(o) : o \in Observations(t)} \cup {NonStrStep, ShortStep, UnsizedStep}

(* What processing one observation ends with: the updated extracted_data,   *)
(* or an exception raised inside the try block.                             *)
Mined(rec) == [raised |-> FALSE, rec |-> rec]
MineRaised(rec) == [raised |-> TRUE, rec |-> rec]

(* url_match = re.search(...); if url_match: rec[field] = url *)
UrlInto(rec, obs, field) ==
    LET u == UrlSearch(obs)
    IN  IF u.ok THEN [rec EXCEPT ![field] = u.val] ELSE rec

(* for field in order: if rec[field] == "NA": rec[field] = url; break *)
FillFirstNA(rec, order, url) ==
    LET free == {i \in DOMAIN order : rec[order[i]] = NA}
    IN  IF free = {} THEN rec
        ELSE [rec EXCEPT ![order[SetMin(free)]] = url]

(* url_match = re.search(...); if url_match: the first NA field of order *)
UrlIntoFirstNA(rec, obs, order) ==
    LET u == UrlSearch(obs)
    IN  IF u.ok THEN FillFirstNA(rec, order, u.val) ELSE rec

(* if kw in obs_lower: m = re.search(kw + sep + group); if m: rec[f] = m *)
CaptureInto(rec, lo, kw, field) ==
    IF Contains(lo, kw)
    THEN LET m == ReCapture(lo, {kw}, StopsLine)
         IN  IF m.ok THEN [rec EXCEPT ![field] = m.val] ELSE rec
    ELSE rec

(* if k1 in obs_lower or ...: m = re.search(...); rec[f] = m or the whole text *)
CaptureOrWhole(rec, obs, lo, triggers, kws, field) ==
    IF \E k \in triggers : Contains(lo, k)
    THEN LET m == ReCapture(lo, kws, StopsLine)
         IN  [rec EXCEPT ![field] = IF m.ok THEN m.val ELSE Text(Strip(obs))]
    ELSE rec

(* basic.py: altitude, filled with "Partial" only while it is NA *)
BasicAltitude(rec, lo) ==
    IF (Contains(lo, "altitude") \/ Contains(lo, "km")) /\ rec["altitude"] = NA
    THEN [rec EXCEPT !["altitude"] = "Partial"]
    ELSE rec

(* basic.py: orbit classification, filled with "Partial" only while it is NA *)
BasicOrbit(rec, lo) ==
    IF (\E k \in {"leo", "meo", "geo", "orbit"} : Contains(lo, k))
       /\ rec["launch_orbit_classification"] = NA
    THEN [rec EXCEPT !["launch_orbit_classification"] = "Partial"]
    ELSE rec

(* MineBasic that also keeps the URL of the observation, as the other bots  *)
(* do: the variant under which a source field would be mined.               *)
MineBasicWithSource(rec, obs) ==
    Mined(UrlInto(BasicOrbit(BasicAltitude(rec, ObsLower(obs)), ObsLower(obs)),
                  obs, "altitude_source"))

(* basic.py: first match wins, the value is only ever "Partial" *)
MineBasic(rec, obs) ==
    Mined(BasicOrbit(BasicAltitude(rec, ObsLower(obs)), ObsLower(obs)))

(* cost.py: the order in which a URL is offered to the source fields *)
CostSourceOrder ==
    <<"launch_cost_source", "launch_vehicle_source", "launch_date_source",
      "launch_site_source", "launch_mass_source", "launch_success_source",
      "reusability_source", "mission_cost_source">>

(* cost.py: launch cost *)
CostLaunchCost(rec, obs, lo) ==
    IF Contains(lo, "launch cost") /\ (\E i \in DOMAIN obs : HasDollar(obs[i]))
    THEN LET m == AmountSearch(obs)
         IN  IF m.ok THEN [rec EXCEPT !["launch_cost"] = m.val] ELSE rec
    ELSE rec

(* CostLaunchSuccess testing the failure word before "success": the        *)
(* variant under which a reported failure would be mined as 0.              *)
CostLaunchSuccessFailFirst(rec, lo) ==
    IF Contains(lo, "launch success")
    THEN IF Contains(lo, "fail")
         THEN [rec EXCEPT !["launch_success"] = "0"]
         ELSE IF Contains(lo, "success")
              THEN [rec EXCEPT !["launch_success"] = "1"]
              ELSE rec
    ELSE rec

(* cost.py: launch success *)
CostLaunchSuccess(rec, lo) ==
    IF Contains(lo, "launch success")
    THEN IF Contains(lo, "success")
         THEN [rec EXCEPT !["launch_success"] = "1"]
         ELSE IF Contains(lo, "fail")
              THEN [rec EXCEPT !["launch_success"] = "0"]
              ELSE rec
    ELSE rec

(* cost.py: vehicle reusability and its details *)
CostReusability(rec, obs, lo) ==
    IF Contains(lo, "reusab")
    THEN IF Contains(lo, "reusable")
         THEN [rec EXCEPT !["vehicle_reusability"] = "1",
                          !["reusability_details"] = Text(Strip(obs))]
         ELSE IF Contains(lo, "not reusable") \/ Contains(lo, "expendable")
              THEN [rec EXCEPT !["vehicle_reusability"] = "0",
                               !["reusability_details"] = Text(Strip(obs))]
              ELSE [rec EXCEPT !["reusability_details"] = Text(Strip(obs))]
    ELSE rec

MineCost(rec, obs) ==
    LET lo == ObsLower(obs)
        r1 == CostLaunchCost(rec, obs, lo)
        r2 == CaptureInto(r1, lo, "launch vehicle", "launch_vehicle")
        r3 == CaptureInto(r2, lo, "launch date", "launch_date")
        r4 == CaptureInto(r3, lo, "launch site", "launch_site")
        r5 == CaptureInto(r4, lo, "launch mass", "launch_mass")
        r6 == CostLaunchSuccess(r5, lo)
        r7 == CostReusability(r6, obs, lo)
        r8 == CaptureInto(r7, lo, "mission cost", "mission_cost")
    IN  Mined(UrlIntoFirstNA(r8, obs, CostSourceOrder))

(* tech.py: a matching rule calls self._extract_source_url, which TechAgent  *)
(* does not define: AttributeError, raised inside the try block.            *)
MineTech(rec, obs) ==
    LET lo == ObsLower(obs)
        m1 == ReCapture(lo, {"satellite type"}, StopsDot)
        m2 == ReCapture(lo, {"application"}, StopsDot)
    IN  IF Contains(lo, "satellite type") /\ m1.ok
        THEN MineRaised([rec EXCEPT !["satellite_type"] = m1.val])
        ELSE IF Contains(lo, "application") /\ m2.ok
             THEN MineRaised([rec EXCEPT !["satellite_application"] = m2.val])
             ELSE Mined(rec)

(* gpt_user.py: the if / elif chain of the user category *)
UserCategory(rec, lo) ==
    IF Contains(lo, "military") THEN [rec EXCEPT !["user_category_number"] = "1"]
    ELSE IF Contains(lo, "civil") THEN [rec EXCEPT !["user_category_number"] = "2"]
    ELSE IF Contains(lo, "commercial") THEN [rec EXCEPT !["user_category_number"] = "3"]
    ELSE IF Contains(lo, "government") THEN [rec EXCEPT !["user_category_number"] = "4"]
    ELSE IF Contains(lo, "mix") THEN [rec EXCEPT !["user_category_number"] = "5"]
    ELSE rec

(* gpt_user.py: every rule overwrites *)
MineUser(rec, obs) ==
    LET lo == ObsLower(obs)
        r1 == UserCategory(rec, lo)
        r2 == CaptureOrWhole(r1, obs, lo,
                             {"operated by", "owned by", "user", "operator"},
                             {"operated by", "owned by", "user", "operator"},
                             "user_description")
    IN  Mined(UrlInto(r2, obs, "user_source_link"))

(* gpt_purpose.py: the if / elif chain of the purpose *)
PurposeNumber(lo) ==
    IF Contains(lo, "communication") THEN "1"
    ELSE IF Contains(lo, "earth observation") THEN "2"
    ELSE IF Contains(lo, "navigation") THEN "3"
    ELSE IF Contains(lo, "space science") THEN "4"
    ELSE IF Contains(lo, "technology development") THEN "5"
    ELSE ""

(* PurposeCategory writing purpose alone: the variant under which the two   *)
(* fields would part.                                                       *)
PurposeCategoryPurposeOnly(rec, p) ==
    IF p # "" THEN [rec EXCEPT !["purpose"] = p] ELSE rec

PurposeCategory(rec, p) ==
    IF p # ""
    THEN [rec EXCEPT !["purpose"] = p, !["purpose_category_number"] = p]
    ELSE rec

(* gpt_purpose.py: the if / elif chain of the SDG category *)
PurposeSdgCategory(rec, lo) ==
    IF Contains(lo, "economic") THEN [rec EXCEPT !["sdg_category"] = "1"]
    ELSE IF Contains(lo, "social") THEN [rec EXCEPT !["sdg_category"] = "2"]
    ELSE IF Contains(lo, "environmental") THEN [rec EXCEPT !["sdg_category"] = "3"]
    ELSE IF Contains(lo, "innovation") THEN [rec EXCEPT !["sdg_category"] = "4"]
    ELSE rec

(* gpt_purpose.py: the SDG numbers, when any is found *)
PurposeSdgNumbers(rec, ns) ==
    IF ns # <<>>
    THEN [rec EXCEPT !["sdg_category_identification_numbers"] = ListText(ns)]
    ELSE rec

(* gpt_purpose.py: the SDG description *)
PurposeSdgDescription(rec, lo) ==
    IF Contains(lo, "sdg")
    THEN LET d == ReCapture(lo, {"sdg", "sdgs"}, StopsLine)
         IN  IF d.ok THEN [rec EXCEPT !["sdg_description"] = d.val] ELSE rec
    ELSE rec

(* gpt_purpose.py: a URL goes to purpose_source_link while that is NA, and  *)
(* to sdg_source_link afterwards.                                           *)
PurposeUrl(rec, obs) ==
    IF rec["purpose_source_link"] = NA
    THEN UrlInto(rec, obs, "purpose_source_link")
    ELSE UrlInto(rec, obs, "sdg_source_link")

(* gpt_purpose.py *)
MinePurpose(rec, obs) ==
    LET lo == ObsLower(obs)
        r1 == PurposeCategory(rec, PurposeNumber(lo))
        r2 == CaptureOrWhole(r1, obs, lo, {"purpose", "mission", "application"},
                             {"purpose", "mission", "application"},
                             "purpose_description")
        r3 == PurposeSdgCategory(r2, lo)
        r4 == PurposeSdgNumbers(r3, SdgNums(lo, 1))
        r5 == PurposeSdgDescription(r4, lo)
    IN  Mined(PurposeUrl(r5, obs))

(* gpt_frugal.py: frugal YES / NO *)
FrugalYesNo(rec, lo) ==
    IF Contains(lo, "frugal")
    THEN IF Contains(lo, "yes") THEN [rec EXCEPT !["frugal"] = "YES"]
         ELSE IF Contains(lo, "no") THEN [rec EXCEPT !["frugal"] = "NO"]
         ELSE rec
    ELSE rec

(* if kw in obs_lower: efficient / low cost -> 1 and the description, else 0 *)
EfficiencyInto(rec, obs, lo, hit, field) ==
    IF hit
    THEN IF Contains(lo, "efficient") \/ Contains(lo, "low cost")
         THEN [rec EXCEPT ![field] = "1",
                          ![field \o "_description"] = Text(Strip(obs))]
         ELSE [rec EXCEPT ![field] = "0"]
    ELSE rec

(* gpt_frugal.py: frugal innovation design *)
FrugalDesign(rec, obs, lo) ==
    IF Contains(lo, "frugal innovation") \/ Contains(lo, "indigenous")
       \/ Contains(lo, "reuse")
    THEN [rec EXCEPT !["frugal_innovation_design"] = "1",
                     !["frugal_innovation_design_description"] = Text(Strip(obs))]
    ELSE rec

(* gpt_frugal.py: the if / elif chain that places a URL *)
FrugalSourceOrder ==
    <<"development_cost_efficiency_source", "operational_cost_efficiency_source",
      "labour_cost_efficiency_source", "frugal_innovation_design_source">>

MineFrugal(rec, obs) ==
    LET lo == ObsLower(obs)
        r1 == FrugalYesNo(rec, lo)
        r2 == EfficiencyInto(r1, obs, lo, Contains(lo, "development cost"),
                             "development_cost_efficiency")
        r3 == EfficiencyInto(r2, obs, lo, Contains(lo, "operational cost"),
                             "operational_cost_efficiency")
        r4 == EfficiencyInto(r3, obs, lo,
                             Contains(lo, "labour cost") \/ Contains(lo, "labor cost"),
                             "labour_cost_efficiency")
        r5 == FrugalDesign(r4, obs, lo)
    IN  Mined(UrlIntoFirstNA(r5, obs, FrugalSourceOrder))

(* m = re.search(kw + sep + digits); if m: rec[field] = float(m.group(1)) *)
FloatInto(rec, lo, kw, field) ==
    LET m == NumCapture(lo, kw)
    IN  IF m.ok THEN [rec EXCEPT ![field] = FloatOf(m.val)] ELSE rec

(* float() raises ValueError on the digits captured after kw *)
FloatRaises(lo, kw) ==
    LET m == NumCapture(lo, kw)
    IN  m.ok /\ FloatOf(m.val) = "ValueError"

(* gpt_numeric.py: the description *)
NumericDescription(rec, obs, lo) ==
    IF Contains(lo, "roi") \/ Contains(lo, "return on investment")
    THEN [rec EXCEPT !["return_on_investment_description"] = Text(Strip(obs))]
    ELSE rec

(* gpt_numeric.py: float() of the captured digits raises ValueError on text  *)
(* such as "1.2.3".                                                         *)
MineNumeric(rec, obs) ==
    LET lo == ObsLower(obs)
        r1 == FloatInto(rec, lo, "roi", "return_on_investment")
        r2 == FloatInto(r1, lo, "revenue", "data_of_revenue_from_satellite_launch_musd")
        r3 == NumericDescription(r2, obs, lo)
    IN  IF FloatRaises(lo, "roi") \/ FloatRaises(lo, "revenue")
        THEN MineRaised(rec)
        ELSE Mined(UrlInto(r3, obs, "return_on_investment_source"))

(* gpt_tech.py *)
MineGptTech(rec, obs) ==
    LET lo == ObsLower(obs)
        r1 == CaptureOrWhole(rec, obs, lo, {"hardware", "platform"},
                             {"hardware", "platform"}, "hardware")
        r2 == CaptureOrWhole(r1, obs, lo, {"sensor", "payload"},
                             {"sensor", "sensors", "payload", "payloads"}, "sensors")
        r3 == CaptureOrWhole(r2, obs, lo, {"breakthrough", "innovative", "technology"},
                             {"breakthrough", "innovative", "technology"},
                             "breakthrough_tech")
    IN  Mined(UrlInto(r3, obs, "tech_source_link"))

(* The body of the for loop for one string observation. *)
MineObs(t, rec, obs) ==
    CASE t = "basic" -> MineBasic(rec, obs)
      [] t = "cost" -> MineCost(rec, obs)
      [] t = "tech" -> MineTech(rec, obs)
      [] t = "gpt_user" -> MineUser(rec, obs)
      [] t = "gpt_purpose" -> MinePurpose(rec, obs)
      [] t = "gpt_frugal" -> MineFrugal(rec, obs)
      [] t = "gpt_numeric" -> MineNumeric(rec, obs)
      [] t = "gpt_tech" -> MineGptTech(rec, obs)

(* MineStep without the isinstance test: observation.lower() raises on an   *)
(* observation that is not a str.                                           *)
MineStepUnguarded(t, rec, step) ==
    IF step.kind = "text" THEN MineObs(t, rec, step.obs)
    ELSE IF step.kind \in {"unsized", "nonstr"} THEN MineRaised(rec)
    ELSE Mined(rec)

(* One iteration of the loop over intermediate_steps: a step with fewer     *)
(* than two elements, or whose observation is not a str, is skipped;        *)
(* len(step) raises TypeError on a step without a length.                   *)
MineStep(t, rec, step) ==
    IF step.kind = "text" THEN MineObs(t, rec, step.obs)
    ELSE IF step.kind = "unsized" THEN MineRaised(rec)
    ELSE Mined(rec)

RECURSIVE MineLoop(_, _, _, _)
(* The for loop from step i on, r being what the steps before i ended       *)
(* with; stops at the first exception.                                      *)
MineLoop(t, r, steps, i) ==
    IF i > Len(steps) \/ r.raised THEN r
    ELSE MineLoop(t, MineStep(t, r.rec, steps[i]), steps, i + 1)

(* MineCaught returning extracted_data as the loop left it, for every bot:  *)
(* the variant under which what was mined before the exception would be     *)
(* returned.                                                                *)
MineCaughtPartial(t, rec) == rec

(* What the except branch of _extract_data_from_steps returns: basic.py     *)
(* falls through to return extracted_data, the others return the            *)
(* fallback response.                                                       *)
MineCaught(t, rec) ==
    IF t = "basic" THEN rec
    ELSE CreateFallbackResponse(t, "Data extraction failed")

(* What _extract_data_from_steps returns when its loop ended with r. *)
MineResult(t, r) == IF r.raised THEN MineCaught(t, r.rec) ELSE r.rec

(* _extract_data_from_steps(intermediate_steps, satellite_name) *)
ExtractDataFromSteps(t, steps) ==
    MineResult(t, MineLoop(t, Mined(AllNA(t)), steps, 1))

----------------------------------------------------------------------------
(* Agent output.  An output string is a sequence of atoms; its Python       *)
(* string is the atoms' texts concatenated.                                 *)

FJ == "<fence>json"      \* the opening fence: three backquotes and json
F == "<fence>"          \* a bare fence: three backquotes
NL == "\n"              \* whitespace
TXT == "Done."          \* free text: no brace, no backtick
BRK == "{oops"          \* text that starts with a brace and is not JSON
OBJ_FULL == "{full}"    \* a JSON object holding every schema field, a key
                        \* beyond the schema and its own satellite_name
OBJ_PART == "{part}"    \* a JSON object holding the first two schema fields
OBJ_ERR == "{err}"      \* a JSON object holding every schema field and a
                        \* key "error" of the agent's own
CUT == "{cut"           \* a JSON object without its closing brace

OutAtoms == {FJ, F, NL, TXT, BRK, OBJ_FULL, OBJ_PART}

ObjAtoms == {OBJ_FULL, OBJ_PART, OBJ_ERR}

(* The mapping a JSON object atom deserializes to, for bot t. *)
ObjMap(t, atom) ==
    IF atom = OBJ_FULL
    THEN [f \in Fields(t) |-> "v:" \o f]
             @@ ("notes" :> "extra") @@ ("satellite_name" :> "OTHER")
    ELSE IF atom = OBJ_ERR
    THEN [f \in Fields(t) |-> "v:" \o f] @@ ("error" :> "low confidence")
    ELSE (Schema(t)[1] :> "550") @@ (Schema(t)[2] :> "http://x")

(* str.strip() of an output: leading and trailing whitespace atoms go. *)
StripOut(out) == Strip(out)

(* json.loads(text): whitespace around the document is ignored; anything   *)
(* but exactly one JSON document raises JSONDecodeError.                    *)
JsonLoads(t, text) ==
    LET body == StripOut(text)
    IN  IF Len(body) = 1 /\ body[1] \in ObjAtoms
        THEN Match(ObjMap(t, body[1]))
        ELSE [ok |-> FALSE, val |-> <<>>]

(* text[:-1]: the text without its last character.  A whitespace atom is    *)
(* one character; a JSON object loses its closing brace and is JSON no      *)
(* more; free text stays free text.                                         *)
DropLastChar(text) ==
    IF text = <<>> THEN <<>>
    ELSE LET n == Len(text)
             front == SubSeq(text, 1, n - 1)
         IN  IF text[n] = NL THEN front
             ELSE IF text[n] \in ObjAtoms THEN Append(front, CUT)
             ELSE text

(* FencedBlock with the block running to the end of the output instead of  *)
(* to the next fence: the variant under which trailing text would reach     *)
(* json.loads.                                                              *)
FencedBlockToEnd(out) ==
    LET start == SetMin({i \in DOMAIN out : out[i] = FJ}) + 1
    IN  StripOut(SubSeq(out, start, Len(out)))

(* json_start = output.find(FJ) + 7                                         *)
(* json_end = output.find(F, json_start)                                    *)
(* json_str = output[json_start:json_end].strip()                           *)
(* find returns -1 when no fence follows, and output[json_start:-1] is the  *)
(* rest of the output without its last character.                           *)
FencedBlock(out) ==
    LET start == SetMin({i \in DOMAIN out : out[i] = FJ}) + 1
        closers == {j \in start..Len(out) : out[j] \in {F, FJ}}
        slice == IF closers = {}
                 THEN DropLastChar(SubSeq(out, start, Len(out)))
                 ELSE SubSeq(out, start, SetMin(closers) - 1)
    IN  StripOut(slice)

(* output.startswith("{") *)
StartsWithBrace(out) == out # <<>> /\ out[1] \in ObjAtoms \cup {BRK}

(* Results of a call: a returned value (a dict, or something that is not a  *)
(* dict) or a raised exception with its message.                            *)
RawVal == [f \in {"<not a dict>"} |-> ""]

Ret(m) == [raised |-> FALSE, isdict |-> TRUE, val |-> m, msg |-> ""]
RetRaw == [raised |-> FALSE, isdict |-> FALSE, val |-> RawVal, msg |-> ""]
Raise(m) == [raised |-> TRUE, isdict |-> FALSE, val |-> RawVal, msg |-> m]

(* self.output_parser.parse(output): the StructuredOutputParser of the      *)
(* langchain library.  It returns the JSON object found in the text when    *)
(* that object holds every schema key and raises otherwise.  On text that   *)
(* is one JSON object, alone or between two bare fences, every version of   *)
(* the library agrees; on other text that holds a complete object some      *)
(* versions repair the text and return the object and some raise; text      *)
(* without a complete object always raises.                                 *)
ParserParse(t, out) ==
    LET body == StripOut(out)
        inner == IF Len(body) >= 2 /\ body[1] = F /\ body[Len(body)] = F
                 THEN StripOut(SubSeq(body, 2, Len(body) - 1))
                 ELSE body
        raised == Raise("Got invalid return object")
    IN  IF Len(inner) = 1 /\ inner[1] \in ObjAtoms
        THEN IF Fields(t) \subseteq DOMAIN ObjMap(t, inner[1])
             THEN {Ret(ObjMap(t, inner[1]))}
             ELSE {raised}
        ELSE IF OBJ_FULL \in Range(out) /\ FJ \notin Range(out)
             THEN {Ret(ObjMap(t, OBJ_FULL)), raised}
             ELSE {raised}

(* Messages of the exceptions the agent call raises. *)
MsgRateLimit == "429 Resource has been exhausted (e.g. check quota)."
MsgMaxIter == "Agent stopped due to maximum iterations."
MsgTimeout == "Request Timeout"
MsgExecTime == "Exceeded the Execution Time limit"
MsgOther == "Connection reset by peer"

AgentErrors == {MsgRateLimit, MsgMaxIter, MsgTimeout, MsgExecTime, MsgOther}

(* Messages of the exceptions raised inside _process_with_retry itself.     *)
(* The JSONDecodeError message of json.loads on a stripped text that is not *)
(* one JSON document, without the position that follows the colon.          *)
MsgDecode(body) ==
    IF body = <<>> THEN "Expecting value"
    ELSE IF body[1] = BRK THEN "Expecting property name enclosed in double quotes"
    ELSE IF body[1] = CUT THEN "Expecting ',' delimiter"
    ELSE IF body[1] \in ObjAtoms THEN "Extra data"
    ELSE "Expecting value"
MsgNoStartswith == "'dict' object has no attribute 'startswith'"

(* kw in error_msg.lower() *)
MsgContains(msg, kw) ==
    CASE kw = "maximum iterations" -> msg = MsgMaxIter
      [] kw = "timeout" -> msg = MsgTimeout
      [] kw = "execution time" -> msg = MsgExecTime
      [] OTHER -> FALSE

(* ExceptBranch keeping a marker in the schema's first field for the        *)
(* messages of the timeout class: the variant under which the class of the  *)
(* message would reach a schema field.                                      *)
ExceptBranchClassInField(t, msg) ==
    IF MsgContains(msg, "timeout") \/ MsgContains(msg, "execution time")
    THEN SetKey(SetKey(AllNA(t), "error", "Execution timeout"), Schema(t)[1], "timeout")
    ELSE SetKey(AllNA(t), "error", "Error: " \o msg)

(* The except branch of _process_with_retry: the message picks the reason   *)
(* text, and every exception becomes a returned fallback response.          *)
ExceptBranch(t, msg) ==
    IF MsgContains(msg, "maximum iterations")
    THEN CreateFallbackResponse(t, "Max iterations reached")
    ELSE IF MsgContains(msg, "timeout") \/ MsgContains(msg, "execution time")
         THEN CreateFallbackResponse(t, "Execution timeout")
         ELSE CreateFallbackResponse(t, "Error: " \o msg)

(* An agent call's outcome: it raises (kind "raise"), returns something     *)
(* that is not a dict (kind "nondict"), or returns a dict whose "output" is *)
(* a string (outkind "str") or a mapping (outkind "map"), or a dict that    *)
(* holds a record's fields and neither "output" nor "intermediate_steps"    *)
(* (outkind "absent").                                                      *)
AgentRaises(m) ==
    [kind |-> "raise", msg |-> m, outkind |-> "str", output |-> <<>>, steps |-> <<>>]
AgentNonDict ==
    [kind |-> "nondict", msg |-> "", outkind |-> "str", output |-> <<>>, steps |-> <<>>]
AgentReturns(outkind, out, steps) ==
    [kind |-> "dict", msg |-> "", outkind |-> outkind, output |-> out, steps |-> steps]

(* response.get("output", "") and response.get("intermediate_steps", []) *)
Output(resp) == IF resp.outkind = "absent" THEN <<>> ELSE resp.output
IntermediateSteps(resp) == IF resp.outkind = "absent" THEN <<>> ELSE resp.steps

(* "Normal processing" of a string output: the fenced block, else the whole *)
(* string when it starts with a brace, else the structured parser, else the *)
(* trace, else the fallback response.                                       *)
NormalProcessing(t, out, steps) ==
    IF FJ \in Range(out)
    THEN LET l == JsonLoads(t, FencedBlock(out))
         IN  {IF l.ok THEN Ret(l.val) ELSE Raise(MsgDecode(FencedBlock(out)))}
    ELSE IF StartsWithBrace(out) /\ JsonLoads(t, out).ok
         THEN {Ret(JsonLoads(t, out).val)}
         ELSE {IF p.raised
               THEN IF steps # <<>>
                    THEN Ret(ExtractDataFromSteps(t, steps))
                    ELSE Ret(CreateFallbackResponse(t, "Parsing failed"))
               ELSE p : p \in ParserParse(t, out)}

(* TryBlock with the cap test written > instead of >=: the variant under    *)
(* which a trace of exactly StepCap steps would go to normal processing.    *)
TryBlockCapExclusive(t, resp) ==
    IF resp.kind = "raise" THEN {Raise(resp.msg)}
    ELSE IF resp.kind = "nondict" THEN {RetRaw}
    ELSE IF Len(IntermediateSteps(resp)) > StepCap
         THEN {Ret(ExtractDataFromSteps(t, IntermediateSteps(resp)))}
         ELSE IF resp.outkind = "map"
              THEN {Raise(MsgNoStartswith)}
              ELSE NormalProcessing(t, Output(resp), IntermediateSteps(resp))

(* The try block of _process_with_retry. *)
TryBlock(t, resp) ==
    IF resp.kind = "raise" THEN {Raise(resp.msg)}
    ELSE IF resp.kind = "nondict" THEN {RetRaw}
    ELSE IF Len(IntermediateSteps(resp)) >= StepCap
         THEN {Ret(ExtractDataFromSteps(t, IntermediateSteps(resp)))}
         ELSE IF resp.outkind = "map"
              THEN {Raise(MsgNoStartswith)}
              ELSE NormalProcessing(t, Output(resp), IntermediateSteps(resp))

(* One execution of the body of _process_with_retry: try, then except. *)
ProcessWithRetryBody(t, resp) ==
    {IF r.raised THEN Ret(ExceptBranch(t, r.msg)) ELSE r : r \in TryBlock(t, resp)}

(* stop_after_attempt(n) of the retry decorator *)
StopAfter(t) == IF t \in {"basic", "tech"} THEN AttemptsLong ELSE AttemptsShort

(* AfterAttempt leaving the run in the invocation: the variant under which  *)
(* an attempt that ended would never hand its outcome to process_satellite. *)
AfterAttemptHangs(t, n, r) == "Invoking"

(* AfterAttempt calling again after an attempt that returned as well: the   *)
(* variant under which a further attempt would follow a successful one.     *)
AfterAttemptRetryAlways(t, n, r) ==
    IF n < StopAfter(t) THEN "Retrying"
    ELSE IF r.raised THEN "Reraised"
    ELSE "Returned"

(* The retry decorator after the n-th attempt ended with r: the value is    *)
(* returned; an exception brings another attempt while fewer than           *)
(* stop_after_attempt were made, and is re-raised (reraise=True) after the  *)
(* last.                                                                    *)
AfterAttempt(t, n, r) ==
    IF ~r.raised THEN "Returned"
    ELSE IF n < StopAfter(t) THEN "Retrying"
    ELSE "Reraised"

(* ProcessSatellite without the isinstance test and without the except      *)
(* branch: the variant under which an exception, or the item assignment on  *)
(* a value that is not a dict, would reach the caller.                      *)
ProcessSatelliteUnguarded(t, nm, a) ==
    IF a.raised THEN a
    ELSE IF ~a.isdict THEN Raise("'str' object does not support item assignment")
    ELSE Ret(SetKey(a.val, "satellite_name", nm))

(* ProcessSatellite returning only the schema's fields of the record and    *)
(* the satellite_name key: the variant under which keys beyond the schema   *)
(* would be dropped.                                                        *)
ProcessSatelliteSchemaOnly(t, nm, a) ==
    IF a.raised \/ ~a.isdict THEN Ret(SetKey(AllNA(t), "satellite_name", nm))
    ELSE Ret(SetKey([f \in Fields(t) \cap DOMAIN a.val |-> a.val[f]],
                    "satellite_name", nm))

(* ProcessSatellite with result.setdefault("satellite_name", nm) in place   *)
(* of the assignment: the variant under which a satellite_name of the       *)
(* agent's own output would survive.                                        *)
ProcessSatelliteKeepName(t, nm, a) ==
    IF a.raised \/ ~a.isdict THEN Ret(SetKey(AllNA(t), "satellite_name", nm))
    ELSE IF "satellite_name" \in DOMAIN a.val THEN Ret(a.val)
    ELSE Ret(SetKey(a.val, "satellite_name", nm))

(* process_satellite once _process_with_retry has returned or raised *)
ProcessSatellite(t, nm, a) ==
    IF a.raised THEN Ret(SetKey(AllNA(t), "satellite_name", nm))
    ELSE IF ~a.isdict THEN Ret(SetKey(AllNA(t), "satellite_name", nm))
    ELSE Ret(SetKey(a.val, "satellite_name", nm))

----------------------------------------------------------------------------
(* The inputs of the model *)

Names == {"SAT-1"}

(* A trace of n string observations, cycling through the bot's list. *)
RunTrace(t, n) ==
    [i \in 1..n |-> TextStep(ObsList(t)[((i - 1) % Len(ObsList(t))) + 1])]

(* The traces an agent call returns: empty, one below the cap, at the cap. *)
RunTraces(t) == {RunTrace(t, n) : n \in {0, StepCap - 1, StepCap}}

(* The output strings an agent call returns: up to MaxOutLen atoms, alone,  *)
(* after a leading JSON object, before trailing free text, or both.         *)
Outputs ==
    {h \o c \o tail : h \in {<<>>, <<OBJ_PART>>},
                      c \in SeqsUpTo(OutAtoms, MaxOutLen),
                      tail \in {<<>>, <<TXT>>}}

(* What self.agent.invoke can do. *)
Responses(t) ==
    {AgentRaises(m) : m \in AgentErrors}
        \cup {AgentNonDict}
        \cup {AgentReturns("map", <<OBJ_FULL>>, tr) : tr \in RunTraces(t)}
        \cup {AgentReturns("absent", <<OBJ_FULL>>, <<>>)}
        \cup {AgentReturns("str", o, tr) : o \in Outputs, tr \in RunTraces(t)}
        \cup {AgentReturns("str", <<OBJ_ERR>>, tr) : tr \in RunTraces(t)}

Nothing == [raised |-> FALSE, isdict |-> FALSE, val |-> RawVal, msg |-> "<none>"]

----------------------------------------------------------------------------
(* The record store: SatelliteDataManager of data_manager.py.  self.data is *)
(* a dict from satellite names to dicts from data types to entries; a dict  *)
(* is a function, the empty dict the empty function.                        *)

EmptyDict == <<>>

(* del d[k] *)
DelKey(d, k) == [x \in (DOMAIN d) \ {k} |-> d[x]]

(* The value None and a returned value. *)
NoneVal == [none |-> TRUE, val |-> EmptyDict]
Some(v) == [none |-> FALSE, val |-> v]

(* A data_type argument that is falsy: None (the default) or "". *)
NoType == ""

(* {"data": data, "last_updated": datetime.now().isoformat()} *)
Entry(r, now) == [data |-> r, last_updated |-> now]

(* datetime.now() of the n-th operation: time is the operation count. *)
Now(ops) == Len(ops) + 1

(* AppendSatelliteData with the new record's fields written over the old    *)
(* record's: the variant under which a field of the old record that the new *)
(* one lacks would survive.                                                 *)
AppendSatelliteDataMerge(d, e, t, r, now) ==
    LET secs == IF e \in DOMAIN d THEN d[e] ELSE EmptyDict
        old == IF t \in DOMAIN secs THEN secs[t].data ELSE EmptyDict
    IN  SetKey(d, e, SetKey(secs, t, Entry(r @@ old, now)))

(* AppendSatelliteData with the timestamp written into the record as well:  *)
(* the variant under which a second put of the same record would change the *)
(* stored data.                                                             *)
AppendSatelliteDataStamped(d, e, t, r, now) ==
    SetKey(d, e, SetKey(IF e \in DOMAIN d THEN d[e] ELSE EmptyDict,
                        t, Entry(SetKey(r, "last_updated", now), now)))

(* AppendSatelliteData storing the record itself under the data type: the   *)
(* variant under which an entry would not be the data/last_updated pair.    *)
AppendSatelliteDataBare(d, e, t, r, now) ==
    SetKey(d, e, SetKey(IF e \in DOMAIN d THEN d[e] ELSE EmptyDict, t, r))

(* append_satellite_data up to save_data: self.data afterwards. *)
AppendSatelliteData(d, e, t, r, now) ==
    SetKey(d, e, SetKey(IF e \in DOMAIN d THEN d[e] ELSE EmptyDict,
                        t, Entry(r, now)))

(* get_satellite_data(satellite_name, data_type) *)
GetSatelliteData(d, e, t) ==
    IF e \notin DOMAIN d THEN NoneVal
    ELSE IF t # NoType
         THEN IF t \in DOMAIN d[e] THEN Some(d[e][t]) ELSE NoneVal
         ELSE Some(d[e])

(* get_all_satellites(): the keys of self.data. *)
GetAllSatellites(d) == DOMAIN d

(* DeleteSatelliteData emptying the whole store: the variant under which    *)
(* the deletion of one satellite would reach the others.                    *)
DeleteSatelliteDataAll(d, e) ==
    IF e \in DOMAIN d THEN [data |-> EmptyDict, ret |-> TRUE]
    ELSE [data |-> d, ret |-> FALSE]

(* delete_satellite_data: self.data afterwards and the value returned. *)
DeleteSatelliteData(d, e) ==
    IF e \in DOMAIN d THEN [data |-> DelKey(d, e), ret |-> TRUE]
    ELSE [data |-> d, ret |-> FALSE]

(* delete_satellite_section with the satellite kept when its last section   *)
(* goes: the variant under which an entity without records stays listed.    *)
DeleteSatelliteSectionKeepEmpty(d, e, sec) ==
    IF e \in DOMAIN d /\ sec \in DOMAIN d[e]
    THEN [data |-> SetKey(d, e, DelKey(d[e], sec)), ret |-> TRUE]
    ELSE [data |-> d, ret |-> FALSE]

(* DeleteSatelliteSection reporting success for a key that is not stored:   *)
(* the variant under which a deletion of nothing would save self.data over  *)
(* the file.                                                                *)
DeleteSatelliteSectionAlwaysSaves(d, e, sec) ==
    IF e \in DOMAIN d /\ sec \in DOMAIN d[e]
    THEN [data |-> IF DOMAIN DelKey(d[e], sec) = {} THEN DelKey(d, e)
                   ELSE SetKey(d, e, DelKey(d[e], sec)),
          ret |-> TRUE]
    ELSE [data |-> d, ret |-> TRUE]

(* delete_satellite_section: self.data afterwards and the value returned. *)
DeleteSatelliteSection(d, e, sec) ==
    IF e \in DOMAIN d /\ sec \in DOMAIN d[e]
    THEN LET rest == DelKey(d[e], sec)
         IN  [data |-> IF DOMAIN rest = {} THEN DelKey(d, e)
                       ELSE SetKey(d, e, rest),
              ret |-> TRUE]
    ELSE [data |-> d, ret |-> FALSE]

(* SaveData writing an empty document: the variant under which the file    *)
(* would not hold what the handle holds.                                    *)
SaveDataEmpty(d) == EmptyDict

(* save_data then load_data: json.dump and json.load of a dict with string  *)
(* keys whose leaves are strings and integers give the dict back.           *)
SaveData(d) == d
LoadData(f) == f

(* The inputs of the store operations *)
MaxOps == 3         \* operations of one run of the store

Entities == {"SAT-1", "SAT-2"}
StoreTypes == {"basic_info", "launch_cost_info"}
StoreRecords ==
    {[altitude |-> "550", orbit |-> "LEO", satellite_name |-> "SAT-1"],
     [altitude |-> "600", satellite_name |-> "SAT-1"]}

StoreIdle ==
    /\ data = EmptyDict
    /\ file = EmptyDict
    /\ log = <<>>
    /\ got = NoneVal

----------------------------------------------------------------------------
(* The application: the tabs of app.py.  satellite_data and gpt_data of the *)
(* session state are one function from satellite names to dicts from tab    *)
(* keys to records; the two have disjoint keys.                             *)

DataTabs == {"basic_info", "technical_specs", "launch_cost_info"}
GptTabs == {"user_info", "purpose_sdg", "tech", "frugal", "numeric"}
Tabs == DataTabs \cup GptTabs

(* The bot class each render_tab call passes. *)
TabBot(key) ==
    CASE key = "basic_info" -> "basic"
      [] key = "technical_specs" -> "tech"
      [] key = "launch_cost_info" -> "cost"
      [] key = "user_info" -> "gpt_user"
      [] key = "purpose_sdg" -> "gpt_purpose"
      [] key = "tech" -> "gpt_tech"
      [] key = "frugal" -> "gpt_frugal"
      [] key = "numeric" -> "gpt_numeric"

(* The session_key each render_tab call passes, and whether it passes the   *)
(* data manager.                                                            *)
SessionKey(key) == IF key \in DataTabs THEN "satellite_data" ELSE "gpt_data"
HasManager(key) == key \in DataTabs

(* A dict is truthy when it is not empty. *)
Truthy(d) == DOMAIN d # {}

(* load_satellite_data(satellite_name): the session dicts are created, and  *)
(* the three data sections are read from the store the first time.          *)
LoadSection(sess, d, e, key) ==
    LET g == GetSatelliteData(d, e, key)
    IN  IF ~g.none /\ Truthy(g.val.data)
        THEN SetKey(sess, e, SetKey(sess[e], key, g.val.data))
        ELSE sess

LoadSatelliteData(sess, ld, d, e) ==
    LET s0 == IF e \in DOMAIN sess THEN sess
              ELSE SetKey(sess, e, [k \in Tabs |-> EmptyDict])
    IN  IF e \in ld THEN [session |-> s0, loaded |-> ld]
        ELSE [session |->
                  LoadSection(
                      LoadSection(
                          LoadSection(s0, d, e, "basic_info"),
                          d, e, "technical_specs"),
                      d, e, "launch_cost_info"),
              loaded |-> ld \cup {e}]

(* What the agent answers in a run started from a tab. *)
TabResponses(t) ==
    {AgentReturns("str", <<FJ, OBJ_FULL, F>>, <<>>), AgentRaises(MsgRateLimit)}

(* bot = bot_class(); result = bot.process_satellite(satellite_name): the   *)
(* constructor raises, or the run returns its record.  The store is not an  *)
(* input of the run: the bot's own data manager is the function of a        *)
(* lookup tool only.                                                        *)
BotRuns(key, e) ==
    {Raise("bot_class() failed")}
        \cup {ProcessSatellite(TabBot(key), e, a) :
                 a \in UNION {ProcessWithRetryBody(TabBot(key), resp) :
                                 resp \in TabResponses(TabBot(key))}}

(* RenderTabRun with a put of the all-NA record when the run raised: the    *)
(* variant under which a run without a record would write the store.        *)
RenderTabRunPutsAnyway(sess, e, key, res) ==
    IF res.raised
    THEN [session |-> sess, put |-> Some(AllNA(TabBot(key)))]
    ELSE [session |-> SetKey(sess, e, SetKey(sess[e], key, res.val)),
          put |-> IF HasManager(key) /\ SessionKey(key) = "satellite_data"
                  THEN Some(res.val)
                  ELSE NoneVal]

(* The Run button of render_tab once the bot run ended with res: the        *)
(* session after session_dict[data_key] = result, and the record the script *)
(* run goes on to put into the store with                                   *)
(* data_manager.append_satellite_data, if any.                              *)
RenderTabRun(sess, e, key, res) ==
    IF res.raised THEN [session |-> sess, put |-> NoneVal]
    ELSE IF ~Truthy(res.val) THEN [session |-> sess, put |-> NoneVal]
    ELSE [session |-> SetKey(sess, e, SetKey(sess[e], key, res.val)),
          put |-> IF HasManager(key) /\ SessionKey(key) = "satellite_data"
                  THEN Some(res.val)
                  ELSE NoneVal]

(* The Delete button of render_tab. *)
RenderTabDelete(sess, d, e, key) ==
    [session |-> SetKey(sess, e, SetKey(sess[e], key, EmptyDict)),
     data |-> IF HasManager(key) THEN DeleteSatelliteSection(d, e, key).data
              ELSE d]

MaxAppOps == 4      \* button presses of one run of the application

NoSatellite == ""

AppIdle ==
    /\ session = EmptyDict
    /\ loaded = {}
    /\ selected = NoSatellite
    /\ current = <<>>
    /\ pending = NoneVal

FallbackIdle == fallbacks = <<>>

WaitIdle == waits = [exp0 |-> 0, seq |-> <<>>]

HandlesIdle == handles = <<>>

ExportIdle == export = <<>>

----------------------------------------------------------------------------
(* One run of process_satellite *)

RunIdle ==
    /\ pc = "Idle"
    /\ calls = <<>>
    /\ attempt = Nothing
    /\ result = Nothing

MineIdle ==
    /\ mtopic = "basic"
    /\ mtrace = <<>>
    /\ mi = 0
    /\ mrec = AllNA("basic")
    /\ mpc = "idle"

Init ==
    /\ topic \in Topics
    /\ name \in Names
    /\ RunIdle
    /\ MineIdle
    /\ StoreIdle
    /\ AppIdle
    /\ FallbackIdle
    /\ WaitIdle
    /\ HandlesIdle
    /\ ExportIdle

LastCall == calls[Len(calls)]

(* self.agent.invoke(...) is called: the first attempt, or the retry        *)
(* decorator calling _process_with_retry again.                             *)
Invoke ==
    /\ pc \in {"Idle", "Retrying"}
    /\ \E resp \in Responses(topic) : calls' = Append(calls, resp)
    /\ pc' = "Invoking"
    /\ UNCHANGED <<topic, name, attempt, result, mineVars, storeVars, appVars, fallbacks, waits, handles, export>>

(* The body of _process_with_retry runs to its end on the agent's outcome;  *)
(* the retry decorator calls again while an attempt raised and fewer than   *)
(* stop_after_attempt attempts were made, and re-raises after the last.     *)
AttemptEnds ==
    /\ pc = "Invoking"
    /\ \E r \in ProcessWithRetryBody(topic, LastCall) :
          /\ attempt' = r
          /\ pc' = AfterAttempt(topic, Len(calls), r)
    /\ UNCHANGED <<topic, name, calls, result, mineVars, storeVars, appVars, fallbacks, waits, handles, export>>

(* process_satellite returns. *)
Finish ==
    /\ pc \in {"Returned", "Reraised"}
    /\ result' = ProcessSatellite(topic, name, attempt)
    /\ pc' = "Done"
    /\ UNCHANGED <<topic, name, calls, attempt, mineVars, storeVars, appVars, fallbacks, waits, handles, export>>

Next == Invoke \/ AttemptEnds \/ Finish

Spec == Init /\ [][Next]_vars

(* Invoke and AttemptEnds as the program counter sees them.  Under Next a    *)
(* step changes pc in this way exactly when it is an Invoke, respectively   *)
(* an AttemptEnds step, and the body of _process_with_retry has an outcome  *)
(* for every response, so each is enabled exactly where the action is.      *)
Invoked == pc \in {"Idle", "Retrying"} /\ pc' = "Invoking"
AttemptEnded == pc = "Invoking" /\ pc' \in {"Returned", "Retrying", "Reraised"}

(* The run of one process_satellite call when every agent invocation        *)
(* returns or raises.  The call is synchronous: process_satellite calls     *)
(* the agent, the agent's invocation ends, and process_satellite returns.   *)
SpecLive ==
    /\ Init
    /\ [][Next]_vars
    /\ WF_pc(Invoked)
    /\ WF_pc(AttemptEnded)
    /\ WF_vars(Finish)

----------------------------------------------------------------------------
(* _extract_data_from_steps, one loop iteration at a time *)

MineInit ==
    /\ mtopic \in Topics
    /\ mtrace \in SeqsUpTo(Steps(mtopic), MaxTraceLen)
    /\ mi = 0
    /\ mrec = AllNA(mtopic)
    /\ mpc = "loop"
    /\ topic = mtopic
    /\ name \in Names
    /\ RunIdle
    /\ StoreIdle
    /\ AppIdle
    /\ FallbackIdle
    /\ WaitIdle
    /\ HandlesIdle
    /\ ExportIdle

(* One iteration of the for loop; an exception leaves the loop for the      *)
(* except branch, which returns.                                            *)
MineIterate ==
    /\ mpc = "loop"
    /\ mi < Len(mtrace)
    /\ LET r == MineStep(mtopic, mrec, mtrace[mi + 1])
       IN  /\ mrec' = MineResult(mtopic, r)
           /\ mpc' = IF r.raised THEN "caught" ELSE "loop"
    /\ mi' = mi + 1
    /\ UNCHANGED <<mtopic, mtrace, runVars, storeVars, appVars, fallbacks, waits, handles, export>>

(* The loop is over: return extracted_data. *)
MineReturn ==
    /\ mpc = "loop"
    /\ mi = Len(mtrace)
    /\ mpc' = "returned"
    /\ UNCHANGED <<mtopic, mtrace, mi, mrec, runVars, storeVars, appVars, fallbacks, waits, handles, export>>

MineNext == MineIterate \/ MineReturn

SpecMine == MineInit /\ [][MineNext]_vars

----------------------------------------------------------------------------
(* The record store, one operation at a time *)

(* An entry of the log: the operation and its arguments. *)
Op(op, e, t, r) == [op |-> op, e |-> e, t |-> t, r |-> r]

StoreInit ==
    /\ topic = "basic"
    /\ name \in Names
    /\ RunIdle
    /\ MineIdle
    /\ StoreIdle
    /\ AppIdle
    /\ FallbackIdle
    /\ WaitIdle
    /\ HandlesIdle
    /\ ExportIdle

(* append_satellite_data(e, t, r) *)
Put ==
    /\ Len(log) < MaxOps
    /\ \E e \in Entities, t \in StoreTypes, r \in StoreRecords :
          /\ data' = AppendSatelliteData(data, e, t, r, Now(log))
          /\ log' = Append(log, Op("put", e, t, r))
    /\ file' = SaveData(data')
    /\ got' = NoneVal
    /\ UNCHANGED <<runVars, mineVars, appVars, fallbacks, waits, handles, export>>

(* get_satellite_data(e, t), and get_satellite_data(e) *)
Get ==
    /\ Len(log) < MaxOps
    /\ \E e \in Entities, t \in StoreTypes \cup {NoType} :
          /\ got' = GetSatelliteData(data, e, t)
          /\ log' = Append(log, Op("get", e, t, EmptyDict))
    /\ UNCHANGED <<data, file, runVars, mineVars, appVars, fallbacks, waits, handles, export>>

(* get_all_satellites() *)
ListAll ==
    /\ Len(log) < MaxOps
    /\ got' = Some(GetAllSatellites(data))
    /\ log' = Append(log, Op("list", NoSatellite, NoType, EmptyDict))
    /\ UNCHANGED <<data, file, runVars, mineVars, appVars, fallbacks, waits, handles, export>>

(* delete_satellite_data(e) *)
DeleteSatellite ==
    /\ Len(log) < MaxOps
    /\ \E e \in Entities :
          /\ data' = DeleteSatelliteData(data, e).data
          /\ file' = IF DeleteSatelliteData(data, e).ret
                     THEN SaveData(data') ELSE file
          /\ got' = Some(DeleteSatelliteData(data, e).ret)
          /\ log' = Append(log, Op("delete", e, NoType, EmptyDict))
    /\ UNCHANGED <<runVars, mineVars, appVars, fallbacks, waits, handles, export>>

(* delete_satellite_section(e, t) *)
DeleteSection ==
    /\ Len(log) < MaxOps
    /\ \E e \in Entities, t \in StoreTypes :
          /\ data' = DeleteSatelliteSection(data, e, t).data
          /\ file' = IF DeleteSatelliteSection(data, e, t).ret
                     THEN SaveData(data') ELSE file
          /\ got' = Some(DeleteSatelliteSection(data, e, t).ret)
          /\ log' = Append(log, Op("delete_section", e, t, EmptyDict))
    /\ UNCHANGED <<runVars, mineVars, appVars, fallbacks, waits, handles, export>>

(* SatelliteDataManager(): a new manager reads the file. *)
Reopen ==
    /\ Len(log) < MaxOps
    /\ data' = LoadData(file)
    /\ got' = NoneVal
    /\ log' = Append(log, Op("reopen", NoSatellite, NoType, EmptyDict))
    /\ UNCHANGED <<file, runVars, mineVars, appVars, fallbacks, waits, handles, export>>

StoreNext == Put \/ Get \/ ListAll \/ DeleteSatellite \/ DeleteSection \/ Reopen

SpecStore == StoreInit /\ [][StoreNext]_vars

----------------------------------------------------------------------------
(* The application, one button press at a time *)

(* The store a session starts on: empty, or holding the basic_info record   *)
(* an earlier session gathered.                                             *)
StoredBefore ==
    {EmptyDict,
     AppendSatelliteData(EmptyDict, "SAT-1", "basic_info",
                         SetKey(AllNA("basic"), "satellite_name", "SAT-1"), 0)}

AppInit ==
    /\ topic = "basic"
    /\ name \in Names
    /\ RunIdle
    /\ MineIdle
    /\ AppIdle
    /\ FallbackIdle
    /\ WaitIdle
    /\ HandlesIdle
    /\ ExportIdle
    /\ data \in StoredBefore
    /\ file = SaveData(data)
    /\ log = <<>>
    /\ got = NoneVal

(* The lists st.session_state.current_satellites can be after Process      *)
(* Satellites: list(set(new_satellites)) of the names typed, in the order   *)
(* the set iterates, which the hash seed of the process decides.            *)
CurrentLists ==
    {<<>>} \cup {<<e>> : e \in Entities}
           \cup {list \in Entities \X Entities : list[1] # list[2]}

(* list.remove(e) on a list without duplicates *)
Remove(list, e) == SelectSeq(list, LAMBDA x : x # e)

(* No script run is between session_dict[data_key] = result and the put. *)
NoRun == pending = NoneVal

(* The Process Satellites button: the names typed become the current        *)
(* satellites and the first of them the selected one.  The script run ends  *)
(* with st.rerun(), and load_satellite_data is left to the next script run. *)
ProcessSatellites ==
    /\ Len(log) < MaxAppOps
    /\ NoRun
    /\ \E list \in CurrentLists :
          /\ current' = list
          /\ selected' = IF list # <<>> THEN list[1] ELSE selected
          /\ log' = Append(log, Op("process", selected', NoType, EmptyDict))
    /\ UNCHANGED <<session, loaded, pending, data, file, got, runVars, mineVars, fallbacks, waits, handles, export>>

(* The script run after one that changed the selected satellite without     *)
(* loading it: the main area calls load_satellite_data(satellite_name).     *)
Rerun ==
    /\ Len(log) < MaxAppOps
    /\ NoRun
    /\ selected # NoSatellite
    /\ selected \notin DOMAIN session \/ selected \notin loaded
    /\ session' = LoadSatelliteData(session, loaded, data, selected).session
    /\ loaded' = LoadSatelliteData(session, loaded, data, selected).loaded
    /\ log' = Append(log, Op("rerun", selected, NoType, EmptyDict))
    /\ UNCHANGED <<selected, current, pending, data, file, got, runVars, mineVars, fallbacks, waits, handles, export>>

(* A satellite is selected in the sidebar, among the current ones or the    *)
(* previously searched ones: the handler loads its data before st.rerun().  *)
Select ==
    /\ Len(log) < MaxAppOps
    /\ NoRun
    /\ \E e \in Range(current) \cup GetAllSatellites(data) :
          /\ selected' = e
          /\ session' = LoadSatelliteData(session, loaded, data, e).session
          /\ loaded' = LoadSatelliteData(session, loaded, data, e).loaded
          /\ log' = Append(log, Op("select", e, NoType, EmptyDict))
    /\ UNCHANGED <<current, pending, data, file, got, runVars, mineVars, fallbacks, waits, handles, export>>

(* The delete button of a current satellite in the sidebar: the selected    *)
(* satellite becomes the first one left, or none.                           *)
CurrentDelete ==
    /\ Len(log) < MaxAppOps
    /\ NoRun
    /\ \E e \in Range(current) :
          /\ current' = Remove(current, e)
          /\ selected' = IF selected = e
                         THEN IF current' # <<>> THEN current'[1] ELSE NoSatellite
                         ELSE selected
          /\ log' = Append(log, Op("current_delete", e, NoType, EmptyDict))
    /\ UNCHANGED <<session, loaded, pending, data, file, got, runVars, mineVars, fallbacks, waits, handles, export>>

(* The Run button of a tab without data, up to status.success: the bot      *)
(* runs, and render_tab keeps what it returned in the session.  The tabs    *)
(* are those of the selected satellite, which a script run has loaded.      *)
Gather ==
    /\ Len(log) < MaxAppOps
    /\ NoRun
    /\ selected # NoSatellite
    /\ selected \in DOMAIN session
    /\ \E key \in Tabs :
          /\ ~Truthy(session[selected][key])
          /\ \E res \in BotRuns(key, selected) :
                /\ session' = RenderTabRun(session, selected, key, res).session
                /\ pending' =
                       IF RenderTabRun(session, selected, key, res).put.none
                       THEN NoneVal
                       ELSE Some(Op("put", selected, key,
                                    RenderTabRun(session, selected, key, res).put.val))
                /\ log' = Append(log, Op("gather", selected, key,
                                         IF res.raised THEN EmptyDict
                                         ELSE res.val))
    /\ UNCHANGED <<loaded, selected, current, data, file, got, runVars, mineVars, fallbacks, waits, handles, export>>

(* The script run of the Run button goes on after status.success:           *)
(* data_manager.append_satellite_data(satellite_name, data_key, result).    *)
GatherStore ==
    /\ ~NoRun
    /\ data' = AppendSatelliteData(data, pending.val.e, pending.val.t,
                                   pending.val.r, Now(log))
    /\ file' = SaveData(data')
    /\ pending' = NoneVal
    /\ log' = Append(log, Op("store", pending.val.e, pending.val.t, pending.val.r))
    /\ UNCHANGED <<session, loaded, selected, current, got, runVars, mineVars, fallbacks, waits, handles, export>>

(* The script run of the Run button is ended at status.success, by the      *)
(* rerun or stop another widget requested meanwhile: the exception that     *)
(* ends a script run is no Exception, and the put is not made.              *)
GatherStopped ==
    /\ ~NoRun
    /\ pending' = NoneVal
    /\ log' = Append(log, Op("stopped", pending.val.e, pending.val.t, pending.val.r))
    /\ UNCHANGED <<session, loaded, selected, current, data, file, got, runVars, mineVars, fallbacks, waits, handles, export>>

(* The Delete button of a tab with data. *)
DeleteTab ==
    /\ Len(log) < MaxAppOps
    /\ NoRun
    /\ selected # NoSatellite
    /\ selected \in DOMAIN session
    /\ \E key \in Tabs :
          /\ Truthy(session[selected][key])
          /\ session' = RenderTabDelete(session, data, selected, key).session
          /\ data' = RenderTabDelete(session, data, selected, key).data
          /\ log' = Append(log, Op("delete_tab", selected, key, EmptyDict))
    /\ file' = IF data' # data THEN SaveData(data') ELSE file
    /\ UNCHANGED <<loaded, selected, current, pending, got, runVars, mineVars, fallbacks, waits, handles, export>>

(* The delete button of a previously searched satellite in the sidebar. *)
DeleteStored ==
    /\ Len(log) < MaxAppOps
    /\ NoRun
    /\ \E e \in GetAllSatellites(data) :
          /\ data' = DeleteSatelliteData(data, e).data
          /\ selected' = IF selected = e THEN NoSatellite ELSE selected
          /\ log' = Append(log, Op("delete_stored", e, NoType, EmptyDict))
    /\ file' = SaveData(data')
    /\ UNCHANGED <<session, loaded, current, pending, got, runVars, mineVars, fallbacks, waits, handles, export>>

(* A later session: the session state starts empty, the data manager is the *)
(* cached one or a new one that read the file.                              *)
NewSession ==
    /\ Len(log) < MaxAppOps
    /\ NoRun
    /\ log # <<>>
    /\ session' = EmptyDict
    /\ loaded' = {}
    /\ selected' = NoSatellite
    /\ current' = <<>>
    /\ data' \in {data, LoadData(file)}
    /\ log' = Append(log, Op("new_session", NoSatellite, NoType, EmptyDict))
    /\ UNCHANGED <<pending, file, got, runVars, mineVars, fallbacks, waits, handles, export>>

AppNext ==
    \/ ProcessSatellites
    \/ Rerun
    \/ Select
    \/ CurrentDelete
    \/ Gather
    \/ GatherStore
    \/ GatherStopped
    \/ DeleteTab
    \/ DeleteStored
    \/ NewSession

SpecApp == AppInit /\ [][AppNext]_vars

----------------------------------------------------------------------------
(* The fallback producer, one call at a time *)

MaxFallbackCalls == 2   \* calls of _create_fallback_response in one run

(* The reasons the bot of topic t passes: "Parsing failed" from the try     *)
(* block; from the except branch of _process_with_retry the reason of the   *)
(* message's class, or "Error: " and the message itself (of the agent's     *)
(* exception, of the AttributeError of a mapping output, of the             *)
(* JSONDecodeError of a fenced block); and, except in basic.py, "Data       *)
(* extraction failed" from _extract_data_from_steps.                        *)
FallbackReasons(t) ==
    LET decode == {MsgDecode(body) :
                      body \in {<<>>, <<BRK>>, <<CUT>>, <<OBJ_FULL, TXT>>}}
        raised == AgentErrors \cup {MsgNoStartswith} \cup decode
    IN  {"Parsing failed"}
            \cup {IF MsgContains(m, "maximum iterations")
                  THEN "Max iterations reached"
                  ELSE IF MsgContains(m, "timeout") \/ MsgContains(m, "execution time")
                       THEN "Execution timeout"
                       ELSE "Error: " \o m : m \in raised}
            \cup (IF t = "basic" THEN {} ELSE {"Data extraction failed"})

FallbackInit ==
    /\ topic \in Topics
    /\ name \in Names
    /\ RunIdle
    /\ MineIdle
    /\ StoreIdle
    /\ AppIdle
    /\ FallbackIdle
    /\ WaitIdle
    /\ HandlesIdle
    /\ ExportIdle

(* self._create_fallback_response(error_reason, satellite_name) *)
CallFallback ==
    /\ Len(fallbacks) < MaxFallbackCalls
    /\ \E reason \in FallbackReasons(topic) :
          fallbacks' = Append(fallbacks, CreateFallbackResponse(topic, reason))
    /\ UNCHANGED <<runVars, mineVars, storeVars, appVars, waits, handles, export>>

FallbackNext == CallFallback

SpecFallback == FallbackInit /\ [][FallbackNext]_vars

----------------------------------------------------------------------------
(* The wait policy of the retry decorator, as a function of the attempt number *)

MaxAttemptNo == 8   \* attempt numbers the wait policy is evaluated for

Max2(a, b) == IF a >= b THEN a ELSE b
Min2(a, b) == IF a <= b THEN a ELSE b

(* The wait without the clamp to [min, max]. *)
WaitExponentialUnclamped(exp0, n) == WaitMultiplier * 2 ^ (n - 1 + exp0)

(* wait_exponential(multiplier=1, min=4, max=60) after attempt number n:
   max(max(0, min), min(multiplier * 2 ** e, max)). The repository pins no
   version of the retry library: e is n - 1 in its current releases and n in
   its older ones, so exp0 (0 or 1) is chosen once per run. *)
WaitExponential(exp0, n) ==
    Max2(Max2(0, WaitMin), Min2(WaitMultiplier * 2 ^ (n - 1 + exp0), WaitMax))

WaitInit ==
    /\ topic \in Topics
    /\ name \in Names
    /\ RunIdle
    /\ MineIdle
    /\ StoreIdle
    /\ AppIdle
    /\ FallbackIdle
    /\ waits \in [exp0 : {0, 1}, seq : {<<>>}]
    /\ HandlesIdle
    /\ ExportIdle

(* The decorator computes the wait that follows attempt Len(waits.seq) + 1. *)
Wait ==
    /\ Len(waits.seq) < MaxAttemptNo
    /\ waits' = [waits EXCEPT !.seq =
                    Append(@, WaitExponential(waits.exp0, Len(waits.seq) + 1))]
    /\ UNCHANGED <<runVars, mineVars, storeVars, appVars, fallbacks, handles, export>>

WaitNext == Wait

SpecWait == WaitInit /\ [][WaitNext]_vars

----------------------------------------------------------------------------
(* Two store handles on one satellite_data.json.  Every SatelliteDataManager *)
(* reads the file once, in __init__ (each bot builds its own, the            *)
(* application another); append_satellite_data then changes the handle's own *)
(* self.data and dumps the whole of it over the file.  The handles run in    *)
(* different processes or threads, so their steps interleave.                *)

Handles == {1, 2}

(* The keys two runs put under: different (satellite, data type) pairs. *)
HandleKeys ==
    {k \in [Handles -> Entities \X StoreTypes] : k[1] # k[2]}

(* The record the run of handle h persists. *)
HandleRecord(h) ==
    [altitude |-> IF h = 1 THEN "550" ELSE "600", satellite_name |-> "SAT-1"]

(* The text of the file when it is not a JSON document: at most n           *)
(* characters of something json.load raises on.  open(file, 'w') leaves the *)
(* empty text.                                                              *)
NotJson(n) == ("<not json>" :> n)
EmptyText == NotJson(0)
Readable(f) == "<not json>" \notin DOMAIN f

(* len(json.dumps(d, indent=4)) of a store d: entity, data type, entry,     *)
(* record of strings.  A dict of n > 0 items at depth k is the braces, n    *)
(* newlines and n - 1 commas, a newline and 4k spaces before the closing    *)
(* brace, and per item 4(k + 1) spaces, the quoted key, ": " and the value. *)
(* datetime.now() of a put, in microseconds: the n-th operation takes place *)
(* in the n-th second, on the second or a microsecond after it.             *)
Second == 1000000
Clock(ops) == {Second * Now(ops), Second * Now(ops) + 1}

(* The quoted text of datetime.isoformat(): YYYY-MM-DDTHH:MM:SS, followed   *)
(* by .ffffff unless the microsecond is 0.                                  *)
StampLen(now) == IF now % Second = 0 THEN 21 ELSE 28
StrLen(str) == Len(str) + 2
BracesLen(depth, n) == IF n = 0 THEN 2 ELSE 2 + 2 * n + 4 * depth
ItemLen(depth, k, vlen) == 4 * (depth + 1) + StrLen(k) + 2 + vlen

RECURSIVE RecItemsLen(_, _)
RecItemsLen(rec, ks) ==
    IF ks = {} THEN 0
    ELSE LET k == CHOOSE x \in ks : TRUE
         IN  ItemLen(3, k, StrLen(rec[k])) + RecItemsLen(rec, ks \ {k})

RecLen(rec) == BracesLen(3, Cardinality(DOMAIN rec)) + RecItemsLen(rec, DOMAIN rec)

EntryLen(entry) ==
    BracesLen(2, 2) + ItemLen(2, "data", RecLen(entry.data))
        + ItemLen(2, "last_updated", StampLen(entry.last_updated))

RECURSIVE SectionsLen(_, _)
SectionsLen(sat, ts) ==
    IF ts = {} THEN 0
    ELSE LET t == CHOOSE x \in ts : TRUE
         IN  ItemLen(1, t, EntryLen(sat[t])) + SectionsLen(sat, ts \ {t})

SatLen(sat) == BracesLen(1, Cardinality(DOMAIN sat)) + SectionsLen(sat, DOMAIN sat)

RECURSIVE SatsLen(_, _)
SatsLen(d, es) ==
    IF es = {} THEN 0
    ELSE LET e == CHOOSE x \in es : TRUE
         IN  ItemLen(0, e, SatLen(d[e])) + SatsLen(d, es \ {e})

DumpLen(d) == BracesLen(0, Cardinality(DOMAIN d)) + SatsLen(d, DOMAIN d)

(* The length of what the file holds. *)
TextLen(f) == IF Readable(f) THEN DumpLen(f) ELSE f["<not json>"]

(* What a handle writes when its file object is closed: the whole text of   *)
(* doc, or a beginning of it when json.dump raised on the way.              *)
Whole(d) == [whole |-> TRUE, doc |-> d]
Partial(d) == [whole |-> FALSE, doc |-> d]

(* Every entry of d is in y: y is d with keys added later, which a dict     *)
(* keeps after the older ones.                                              *)
Extends(y, d) ==
    \A e \in DOMAIN d :
        /\ e \in DOMAIN y
        /\ \A t \in DOMAIN d[e] : t \in DOMAIN y[e] /\ y[e][t] = d[e][t]

(* The file after a handle that opened it with 'w' before writes its text   *)
(* from position 0 and closes.  The file was emptied by that open, but      *)
(* another handle may have written since: what it wrote beyond the length   *)
(* of the new text stays.  A beginning of the text of a store that the      *)
(* file's document extends leaves that document as it is.                   *)
Overwrite(cur, txt) ==
    IF txt.whole
    THEN IF DumpLen(txt.doc) >= TextLen(cur) THEN txt.doc
         ELSE NotJson(TextLen(cur))
    ELSE IF Readable(cur) /\ Extends(cur, txt.doc) THEN cur
         ELSE NotJson(Max2(TextLen(cur), DumpLen(txt.doc) - 1))

(* Overwrite with the file replaced as a whole: the variant under which a   *)
(* save would be one step.                                                  *)
OverwriteWhole(cur, txt) == txt.doc

(* Two runs persist at the same time: through two managers of their own     *)
(* (own, e.g. two processes of the application), or as two threads on the   *)
(* one manager the application caches, whose self.data is data.             *)
ConcInit ==
    /\ topic = "basic"
    /\ name \in Names
    /\ RunIdle
    /\ MineIdle
    /\ StoreIdle
    /\ AppIdle
    /\ FallbackIdle
    /\ WaitIdle
    /\ \E k \in HandleKeys, own \in BOOLEAN :
          handles = [h \in Handles |->
                        [key |-> k[h], own |-> own,
                         pc |-> IF own THEN "new" ELSE "loaded",
                         data |-> EmptyDict, now |-> 0, orphan |-> FALSE,
                         seen |-> {}, grew |-> FALSE,
                         text |-> Whole(EmptyDict)]]
    /\ ExportIdle

(* SatelliteDataManager(): __init__ calls load_data; json.load raises on a  *)
(* file that another handle has opened for writing and not yet written,     *)
(* and no manager comes to exist.                                           *)
HandleLoad(h) ==
    /\ handles[h].own
    /\ handles[h].pc = "new"
    /\ handles' = IF Readable(file)
                  THEN [handles EXCEPT ![h].pc = "loaded", ![h].data = LoadData(file)]
                  ELSE [handles EXCEPT ![h].pc = "failed"]
    /\ log' = Append(log, Op("load", handles[h].key[1], handles[h].key[2], EmptyDict))
    /\ UNCHANGED <<data, file, got, runVars, mineVars, appVars, fallbacks, waits, export>>

(* append_satellite_data up to the call of save_data, on a manager of the   *)
(* run's own                                                                *)
HandleUpdate(h) ==
    /\ handles[h].own
    /\ handles[h].pc = "loaded"
    /\ \E now \in Clock(log) :
          handles' = [handles EXCEPT
                         ![h].pc = "updated",
                         ![h].data = AppendSatelliteData(@, handles[h].key[1],
                                         handles[h].key[2], HandleRecord(h), now)]
    /\ log' = Append(log, Op("update", handles[h].key[1], handles[h].key[2],
                             HandleRecord(h)))
    /\ UNCHANGED <<data, file, got, runVars, mineVars, appVars, fallbacks, waits, export>>

(* The threads inside json.dump see self.data change: d is what it is now,  *)
(* and grown tells that a dict that was not empty got a new key (an empty   *)
(* dict is written as {} without being iterated).                           *)
Seen(hs, h, d, grown) ==
    [x \in Handles |->
        IF x # h /\ hs[x].pc = "dumping"
        THEN [hs[x] EXCEPT !.seen = @ \cup {d}, !.grew = @ \/ grown]
        ELSE hs[x]]

(* The threads on the shared manager run append_satellite_data one access  *)
(* of self.data at a time, and the other thread may run between any two.    *)
(* The log holds a put of a thread from the moment it reads the clock: the  *)
(* order of the other steps of the threads shows in handles, data and file. *)
(* Line 25: if satellite_name not in self.data                              *)
ThreadTest(h) ==
    /\ ~handles[h].own
    /\ handles[h].pc = "loaded"
    /\ handles' = [handles EXCEPT
                      ![h].pc = IF handles[h].key[1] \in DOMAIN data
                                THEN "keyed" ELSE "absent"]
    /\ UNCHANGED <<data, file, log, got, runVars, mineVars, appVars, fallbacks, waits, export>>

(* The dict a thread holds for self.data[satellite_name] is no longer the   *)
(* one in self.data once another thread assigns a new dict to the key.      *)
Orphaned(hs, h, e) ==
    [x \in Handles |->
        IF x # h /\ hs[x].pc = "fetched" /\ hs[x].key[1] = e
        THEN [hs[x] EXCEPT !.orphan = TRUE]
        ELSE hs[x]]

(* Line 26, after a test that found the satellite absent:                   *)
(* self.data[satellite_name] = {}, over whatever the other thread has put   *)
(* under the satellite since the test.                                      *)
ThreadKey(h) ==
    /\ ~handles[h].own
    /\ handles[h].pc = "absent"
    /\ data' = SetKey(data, handles[h].key[1], EmptyDict)
    /\ handles' = Orphaned(Seen([handles EXCEPT ![h].pc = "keyed"], h, data',
                                /\ handles[h].key[1] \notin DOMAIN data
                                /\ data # EmptyDict),
                           h, handles[h].key[1])
    /\ UNCHANGED <<file, log, got, runVars, mineVars, appVars, fallbacks, waits, export>>

(* Lines 29-30: the entry is built, datetime.now() is read; the put takes   *)
(* its place in the log.                                                    *)
ThreadStamp(h) ==
    /\ ~handles[h].own
    /\ handles[h].pc = "keyed"
    /\ \E now \in Clock(log) :
          handles' = [handles EXCEPT ![h].pc = "stamped", ![h].now = now]
    /\ log' = Append(log, Op("update", handles[h].key[1], handles[h].key[2],
                             HandleRecord(h)))
    /\ UNCHANGED <<data, file, got, runVars, mineVars, appVars, fallbacks, waits, export>>

(* Line 28, the target: self.data[satellite_name] is looked up. *)
ThreadFetch(h) ==
    /\ ~handles[h].own
    /\ handles[h].pc = "stamped"
    /\ handles' = [handles EXCEPT ![h].pc = "fetched", ![h].orphan = FALSE]
    /\ UNCHANGED <<data, file, log, got, runVars, mineVars, appVars, fallbacks, waits, export>>

(* Line 28, the assignment: the entry is stored under data_type in the dict *)
(* that was looked up, with the time read before; a dict that is no longer  *)
(* in self.data takes the entry with it.                                    *)
ThreadSet(h) ==
    /\ ~handles[h].own
    /\ handles[h].pc = "fetched"
    /\ data' = IF handles[h].orphan THEN data
               ELSE AppendSatelliteData(data, handles[h].key[1], handles[h].key[2],
                                        HandleRecord(h), handles[h].now)
    /\ handles' = Seen([handles EXCEPT ![h].pc = "updated"], h, data',
                       /\ ~handles[h].orphan
                       /\ data[handles[h].key[1]] # EmptyDict
                       /\ handles[h].key[2] \notin DOMAIN data[handles[h].key[1]])
    /\ UNCHANGED <<file, log, got, runVars, mineVars, appVars, fallbacks, waits, export>>

(* save_data: open(self.data_file, 'w') empties the file. *)
HandleOpen(h) ==
    /\ handles[h].pc = "updated"
    /\ file' = EmptyText
    /\ handles' = [handles EXCEPT
                      ![h].pc = IF handles[h].own THEN "dumped" ELSE "open",
                      ![h].text = Whole(handles[h].data)]
    /\ log' = IF handles[h].own
              THEN Append(log, Op("open", handles[h].key[1], handles[h].key[2], EmptyDict))
              ELSE log
    /\ UNCHANGED <<data, got, runVars, mineVars, appVars, fallbacks, waits, export>>

(* json.dump(self.data, f, indent=4) on the shared manager starts: it       *)
(* iterates the dicts themselves, chunk by chunk.                           *)
ThreadDumpBegin(h) ==
    /\ ~handles[h].own
    /\ handles[h].pc = "open"
    /\ handles' = [handles EXCEPT ![h].pc = "dumping", ![h].seen = {data},
                                  ![h].grew = FALSE]
    /\ UNCHANGED <<data, file, log, got, runVars, mineVars, appVars, fallbacks, waits, export>>

(* json.dump on the shared manager ends.  Its text is self.data as it was   *)
(* at some moment of the dump; when a dict got a new key meanwhile, the     *)
(* iteration may also have raised RuntimeError (dictionary changed size     *)
(* during iteration) with a beginning of the text written.                  *)
ThreadDumpEnd(h) ==
    /\ ~handles[h].own
    /\ handles[h].pc = "dumping"
    /\ \/ \E d \in handles[h].seen :
             handles' = [handles EXCEPT ![h].pc = "dumped", ![h].text = Whole(d)]
       \/ /\ handles[h].grew
          /\ handles' = [handles EXCEPT ![h].pc = "raising", ![h].text = Partial(data)]
    /\ UNCHANGED <<data, file, log, got, runVars, mineVars, appVars, fallbacks, waits, export>>

(* save_data: the with block is left and the file object closed, which      *)
(* writes the buffered text (a text shorter than the buffer of the file     *)
(* object reaches the file in this one write); after an exception the call  *)
(* of append_satellite_data raises.                                         *)
HandleSave(h) ==
    /\ handles[h].pc \in {"dumped", "raising"}
    /\ file' = Overwrite(file, handles[h].text)
    /\ handles' = [handles EXCEPT
                      ![h].pc = IF handles[h].pc = "dumped" THEN "saved" ELSE "raised"]
    /\ log' = IF handles[h].own
              THEN Append(log, Op("save", handles[h].key[1], handles[h].key[2], EmptyDict))
              ELSE log
    /\ UNCHANGED <<data, got, runVars, mineVars, appVars, fallbacks, waits, export>>

(* Once the puts are over, a manager is used once more, on any key: one of *)
(* the two managers of their own, or the shared one.  Its self.data is then *)
(* what it loaded and put, which need not be what the file holds.           *)
AllSaved == \A h \in Handles : handles[h].pc \in {"saved", "failed", "raised"}

(* self.data of the manager the handle h works on *)
ManagerData(hs, d, h) == IF hs[h].own THEN hs[h].data ELSE d

(* The handle h has a manager and can use it: a thread on the shared        *)
(* manager can after its put ended, saved or raised.                        *)
CanUse(h) ==
    /\ AllSaved
    /\ handles[h].pc \in (IF handles[h].own THEN {"saved"} ELSE {"saved", "raised"})

(* self.data of the manager of h becomes d *)
SetManagerData(h, d) ==
    IF handles[h].own
    THEN /\ handles' = [handles EXCEPT ![h].pc = "used", ![h].data = d]
         /\ data' = data
    ELSE /\ handles' = [handles EXCEPT ![h].pc = "used"]
         /\ data' = d

(* get_satellite_data(e, t) on the manager of h *)
HandleGet(h) ==
    /\ CanUse(h)
    /\ \E e \in Entities, t \in StoreTypes \cup {NoType} :
          /\ got' = GetSatelliteData(ManagerData(handles, data, h), e, t)
          /\ log' = Append(log, Op("get", e, t, EmptyDict))
    /\ handles' = [handles EXCEPT ![h].pc = "used"]
    /\ UNCHANGED <<data, file, runVars, mineVars, appVars, fallbacks, waits, export>>

(* delete_satellite_section(e, t) on the manager of h; no other handle is   *)
(* at work, and its save_data is the file emptied and written.              *)
HandleDeleteSection(h) ==
    /\ CanUse(h)
    /\ \E e \in Entities, t \in StoreTypes :
          LET del == DeleteSatelliteSection(ManagerData(handles, data, h), e, t)
          IN  /\ SetManagerData(h, del.data)
              /\ file' = IF del.ret THEN SaveData(del.data) ELSE file
              /\ got' = Some(del.ret)
              /\ log' = Append(log, Op("delete_section", e, t, EmptyDict))
    /\ UNCHANGED <<runVars, mineVars, appVars, fallbacks, waits, export>>

(* delete_satellite_data(e) on the manager of h *)
HandleDeleteSatellite(h) ==
    /\ CanUse(h)
    /\ \E e \in Entities :
          LET del == DeleteSatelliteData(ManagerData(handles, data, h), e)
          IN  /\ SetManagerData(h, del.data)
              /\ file' = IF del.ret THEN SaveData(del.data) ELSE file
              /\ got' = Some(del.ret)
              /\ log' = Append(log, Op("delete", e, NoType, EmptyDict))
    /\ UNCHANGED <<runVars, mineVars, appVars, fallbacks, waits, export>>

ConcNext ==
    \E h \in Handles :
        \/ HandleLoad(h)
        \/ HandleUpdate(h)
        \/ ThreadTest(h)
        \/ ThreadKey(h)
        \/ ThreadStamp(h)
        \/ ThreadFetch(h)
        \/ ThreadSet(h)
        \/ HandleOpen(h)
        \/ ThreadDumpBegin(h)
        \/ ThreadDumpEnd(h)
        \/ HandleSave(h)
        \/ HandleGet(h)
        \/ HandleDeleteSection(h)
        \/ HandleDeleteSatellite(h)

SpecConc == ConcInit /\ [][ConcNext]_vars

----------------------------------------------------------------------------
(* The upload of a satellite's records to the Google sheet: the two upload  *)
(* buttons of app.py and the row upload_to_gsheet builds.  A value of a     *)
(* record is a string or a nested object; a cell of the row holds whatever  *)
(* value the code put there.                                                *)

Str(s) == [isdict |-> FALSE, s |-> s, d |-> EmptyDict]
Obj(d) == [isdict |-> TRUE, s |-> "", d |-> d]

BASIC_INFO_COLUMNS ==
    <<"satellite_name", "altitude", "orbital_period", "inclination",
      "eccentricity", "launch_date", "status", "orbital_life", "mass", "power">>
TECH_SPECS_COLUMNS ==
    <<"satellite_type", "primary_mission", "instruments", "sensors",
      "applications", "data_products", "resolution", "swath_width",
      "frequency_bands">>
LAUNCH_COST_COLUMNS ==
    <<"launch_vehicle", "launch_site", "launch_cost", "development_cost",
      "total_mission_cost", "launch_success", "contractor", "mission_duration">>
GPT_COLUMNS == <<"user_info", "purpose_sdg", "tech", "frugal", "numeric">>

(* dict.update: the keys of b over those of a *)
Update(a, b) == b @@ a

(* The column f"{col}_{subk}" *)
SubColumn(col, subk) == col \o "_" \o subk

(* combined_data of the "Upload to Google Sheet" button: the three sections *)
(* that are not empty, merged in this order.                                *)
CombinedData(sat_data) ==
    Update(Update(sat_data["basic_info"], sat_data["technical_specs"]),
           sat_data["launch_cost_info"])

(* The first two columns of every row. *)
RowHead(e, now) ==
    ("satellite_name" :> Str(e)) @@ ("last_updated" :> Str(ToString(now)))

(* sheet_name == "Sheet1": row[col] = data_dict.get(col, "") for the fixed  *)
(* columns, satellite_name among them.                                      *)
RowSheet1(e, data_dict, now) ==
    [col \in Range(BASIC_INFO_COLUMNS \o TECH_SPECS_COLUMNS \o LAUNCH_COST_COLUMNS)
        |-> IF col \in DOMAIN data_dict THEN data_dict[col] ELSE Str("")]
        @@ RowHead(e, now)

(* The columns one key of GPT_COLUMNS gives: a dict value gives one column  *)
(* per key of it, another value its own column, an absent key none.         *)
GptCells(data_dict, col) ==
    IF col \notin DOMAIN data_dict THEN EmptyDict
    ELSE IF data_dict[col].isdict
    THEN [c \in {SubColumn(col, subk) : subk \in DOMAIN data_dict[col].d} |->
             data_dict[col].d[CHOOSE subk \in DOMAIN data_dict[col].d :
                                 SubColumn(col, subk) = c]]
    ELSE col :> data_dict[col]

(* The row with the columns of the first n keys of GPT_COLUMNS. *)
RECURSIVE RowGpt(_, _, _, _)
RowGpt(e, data_dict, now, n) ==
    IF n = 0 THEN RowHead(e, now)
    ELSE Update(RowGpt(e, data_dict, now, n - 1), GptCells(data_dict, GPT_COLUMNS[n]))

(* upload_to_gsheet up to df = pd.DataFrame([row]) *)
RowOf(sheet_name, e, data_dict, now) ==
    IF sheet_name = "Sheet1" THEN RowSheet1(e, data_dict, now)
    ELSE RowGpt(e, data_dict, now, Len(GPT_COLUMNS))

(* The records of a session the upload buttons can meet.  A record of a     *)
(* bot carries satellite_name; a value is a string, or an object when the   *)
(* agent's JSON nests one.                                                  *)
Nested == Obj([value |-> Str("550"), unit |-> Str("km")])
SectionRecords(key) ==
    CASE key = "basic_info" ->
            {EmptyDict,
             [satellite_name |-> Str("SAT-1"), altitude |-> Str("550"),
              altitude_source |-> Str("https://a.example")],
             [satellite_name |-> Str("SAT-1"), altitude |-> Nested]}
      [] key = "technical_specs" ->
            {EmptyDict,
             [satellite_name |-> Str("SAT-1"), satellite_type |-> Str("EO")],
             [satellite_name |-> Str("SAT-1"), instruments |-> Nested]}
      [] key = "launch_cost_info" ->
            {EmptyDict,
             [satellite_name |-> Str("SAT-1"), launch_vehicle |-> Str("Falcon 9")],
             [satellite_name |-> Str("SAT-1"), launch_cost |-> Nested]}
      [] key \in {"user_info", "purpose_sdg", "tech"} ->
            {EmptyDict,
             [satellite_name |-> Str("SAT-1"), summary |-> Str("text")],
             [satellite_name |-> Str("SAT-1"), summary |-> Nested]}
      [] OTHER -> {EmptyDict}

(* st.session_state.satellite_data[e] and st.session_state.gpt_data[e] *)
SessionData(sheet_name) ==
    LET keys == IF sheet_name = "Sheet1" THEN DataTabs ELSE GptTabs
    IN  {sd \in [keys -> UNION {SectionRecords(k) : k \in keys}] :
            \A k \in keys : sd[k] \in SectionRecords(k)}

(* The dict the button passes to upload_to_gsheet. *)
Exported(sheet_name, sd) ==
    IF sheet_name = "Sheet1" THEN CombinedData(sd)
    ELSE [k \in DOMAIN sd |-> Obj(sd[k])]

(* pd.DataFrame: a sequence of rows over the same columns. *)
Columns(frame) == IF frame = <<>> THEN {} ELSE DOMAIN frame[1]

(* The cell of a column a row has no value for: NaN. *)
NaN == Str("<nan>")

(* A row as the worksheet gives it back: a cell holds text. *)
Stored(row) ==
    [c \in DOMAIN row |-> IF row[c].isdict THEN Str("<object>") ELSE row[c]]

(* The sessions of an earlier upload: one section held a record. *)
EarlierSessions(sheet_name) ==
    {sd \in SessionData(sheet_name) :
        Cardinality({k \in DOMAIN sd : Truthy(sd[k])}) = 1}

(* pd.DataFrame(sheet.get_all_records()): the worksheet has no record, the  *)
(* row an earlier upload of this satellite or of another one left, or rows  *)
(* of other columns.                                                        *)
Worksheets(sheet_name, e) ==
    {<<>>, <<[title |-> Str("notes")]>>}
        \cup {<<SetKey(Stored(RowOf(sheet_name, e, Exported(sheet_name, sd), 0)),
                       "satellite_name", Str(other))>> :
                 other \in Entities, sd \in EarlierSessions(sheet_name)}

(* What upload_to_gsheet meets outside the program: whether there is a      *)
(* client, whether the worksheet opens, whether its records can be read and *)
(* what they are, whether existing.loc[i, col] = val takes an object for    *)
(* val, and whether the first and the second call of set_with_dataframe     *)
(* return.                                                                  *)
UploadEnvs(sheet_name, e) ==
    [client : BOOLEAN, opens : BOOLEAN, reads : BOOLEAN,
     existing : Worksheets(sheet_name, e), loc : BOOLEAN,
     sink1 : BOOLEAN, sink2 : BOOLEAN]

(* existing[existing['satellite_name'] == satellite_name].index *)
ExistingIndex(existing, e) ==
    {i \in DOMAIN existing : existing[i]["satellite_name"] = Str(e)}

(* for col, val in row.items():                                             *)
(*     if col in existing.columns: existing.loc[existing_index[0], col] = val *)
UpdateRow(old, row) ==
    [c \in DOMAIN old |-> IF c \in DOMAIN row THEN row[c] ELSE old[c]]

(* pd.concat([existing, df], ignore_index=True) *)
Concat(existing, row) ==
    LET cols == Columns(existing) \cup DOMAIN row
        pad(r) == [c \in cols |-> IF c \in DOMAIN r THEN r[c] ELSE NaN]
    IN  [i \in 1..(Len(existing) + 1) |->
            IF i <= Len(existing) THEN pad(existing[i]) ELSE pad(row)]

(* The inner try block up to its call of set_with_dataframe: the frame it   *)
(* hands over, or an exception (the records cannot be read, they have no    *)
(* satellite_name column, or a cell does not take an object).               *)
FrameOf(e, row, env) ==
    IF ~env.reads THEN [raised |-> TRUE, frame |-> <<>>]
    ELSE IF env.existing = <<>> THEN [raised |-> FALSE, frame |-> <<row>>]
    ELSE IF "satellite_name" \notin Columns(env.existing)
    THEN [raised |-> TRUE, frame |-> <<>>]
    ELSE IF ExistingIndex(env.existing, e) = {}
    THEN [raised |-> FALSE, frame |-> Concat(env.existing, row)]
    ELSE IF ~env.loc /\ \E c \in DOMAIN row \cap Columns(env.existing) : row[c].isdict
    THEN [raised |-> TRUE, frame |-> <<>>]
    ELSE [raised |-> FALSE,
          frame |-> [env.existing EXCEPT
                        ![SetMin(ExistingIndex(env.existing, e))] = UpdateRow(@, row)]]

(* upload_to_gsheet(satellite_name, data_dict, sheet_name): what it returns, *)
(* the row it built and the frame of the call of set_with_dataframe that    *)
(* returned.  Without a client it returns False; an exception of the inner  *)
(* try block hands the row alone to set_with_dataframe; an exception        *)
(* outside of it returns False.                                             *)
UploadToGsheet(sheet_name, e, data_dict, now, env) ==
    LET row == RowOf(sheet_name, e, data_dict, now)
        fr == FrameOf(e, row, env)
        failed == [ret |-> FALSE, row |-> row, frame |-> <<>>]
    IN  IF ~env.client \/ ~env.opens
        THEN [ret |-> FALSE, row |-> EmptyDict, frame |-> <<>>]
        ELSE IF fr.raised
        THEN IF env.sink1 THEN [ret |-> TRUE, row |-> row, frame |-> <<row>>]
             ELSE failed
        ELSE IF env.sink1 THEN [ret |-> TRUE, row |-> row, frame |-> fr.frame]
        ELSE IF env.sink2 THEN [ret |-> TRUE, row |-> row, frame |-> <<row>>]
        ELSE failed

ExportInit ==
    /\ topic = "basic"
    /\ name \in Names
    /\ RunIdle
    /\ MineIdle
    /\ StoreIdle
    /\ AppIdle
    /\ FallbackIdle
    /\ WaitIdle
    /\ HandlesIdle
    /\ \E sheet_name \in {"Sheet1", "Sheet2"} :
          \E sd \in SessionData(sheet_name) :
              export = [sheet |-> sheet_name, session |-> sd, pc |-> "shown",
                        env |-> <<>>, row |-> EmptyDict, frame |-> <<>>,
                        ret |-> FALSE]

(* The upload button is pressed; it is shown when some section holds a      *)
(* record.                                                                  *)
Upload ==
    /\ export.pc = "shown"
    /\ \E k \in DOMAIN export.session : Truthy(export.session[k])
    /\ \E env \in UploadEnvs(export.sheet, name) :
          LET up == UploadToGsheet(export.sheet, name,
                                   Exported(export.sheet, export.session),
                                   Now(log), env)
          IN  export' = [export EXCEPT !.pc = "uploaded", !.env = env,
                                       !.ret = up.ret, !.row = up.row,
                                       !.frame = up.frame]
    /\ UNCHANGED <<runVars, mineVars, storeVars, appVars, fallbacks, waits, handles>>

ExportNext == Upload

SpecExport == ExportInit /\ [][ExportNext]_vars

----------------------------------------------------------------------------
(* Properties *)

Done == pc = "Done"

(* The agent's outcome of the first invocation of a finished run. *)
First == calls[1]

(* The first invocation returned a dict with a string output and a trace    *)
(* below the cap: the run went through normal processing.                   *)
NormalRun ==
    /\ Done
    /\ First.kind = "dict"
    /\ First.outkind = "str"
    /\ Len(First.steps) < StepCap

Stamp(rec) == SetKey(rec, "satellite_name", name)

(* rec completed with NA for every schema field it lacks. *)
Completed(t, rec) ==
    [f \in Fields(t) \cup DOMAIN rec |-> IF f \in DOMAIN rec THEN rec[f] ELSE NA]

(* The text between the opening fence and the next fence after it. *)
OpenAt(out) == SetMin({i \in DOMAIN out : out[i] = FJ})
HasClosingFence(out) ==
    /\ FJ \in Range(out)
    /\ \E j \in (OpenAt(out) + 1)..Len(out) : out[j] \in {F, FJ}
CloseAt(out) == SetMin({j \in (OpenAt(out) + 1)..Len(out) : out[j] \in {F, FJ}})
Between(out) == SubSeq(out, OpenAt(out) + 1, CloseAt(out) - 1)

(* None of the structural parses of a string output succeeds. *)
NoStructuralParse(t, out) ==
    /\ FJ \in Range(out) => ~JsonLoads(t, FencedBlock(out)).ok
    /\ ~(StartsWithBrace(out) /\ JsonLoads(t, out).ok)
    /\ \A p \in ParserParse(t, out) : p.raised

(* C1: for every topic and every outcome of the agent call, the record      *)
(* process_satellite returns holds every field of the topic's schema and    *)
(* the satellite_name key.                                                  *)
C1_RecordComplete ==
    Done => (Fields(topic) \cup {"satellite_name"}) \subseteq DOMAIN result.val

(* C2: process_satellite never raises to its caller; whatever the agent     *)
(* call, the parsing or the mining does, the caller gets a mapping that     *)
(* names the satellite.                                                     *)
C2_NeverRaises ==
    Done => /\ ~result.raised
            /\ result.isdict
            /\ "satellite_name" \in DOMAIN result.val
            /\ result.val["satellite_name"] = name

C2_Witness ==
    /\ Done
    /\ First.kind \in {"raise", "nondict"}
    /\ ~result.raised
    /\ result.val = Stamp(AllNA(topic))

(* C3: when the output of the basic bot is a fenced JSON block that holds   *)
(* only altitude and altitude_source, the returned record keeps the two     *)
(* values, has every other schema field equal to NA and names the           *)
(* satellite.                                                               *)
C3_PartialBlockCompleted ==
    (/\ NormalRun
     /\ topic = "basic"
     /\ HasClosingFence(First.output)
     /\ StripOut(Between(First.output)) = <<OBJ_PART>>)
        => result.val = Stamp(Completed(topic, ObjMap(topic, OBJ_PART)))

(* C4: if the agent call raises a rate-limit error on every attempt, the    *)
(* basic bot invokes the agent exactly 5 times before it returns, and the   *)
(* record is the all-NA fallback.                                           *)
C4_FiveInvocations ==
    (/\ Done
     /\ topic = "basic"
     /\ \A i \in DOMAIN calls : calls[i] = AgentRaises(MsgRateLimit))
        => /\ Len(calls) = AttemptsLong
           /\ result.val = Stamp(AllNA(topic))

(* A run that ends in failure: the agent call raised, or no structural      *)
(* parse succeeded and the trace is empty.                                  *)
RunFailed ==
    /\ Done
    /\ \/ First.kind = "raise"
       \/ /\ NormalRun
          /\ First.steps = <<>>
          /\ NoStructuralParse(topic, First.output)

SevenTopics == Topics \ {"gpt_tech"}

(* C5: a run that ends in failure returns a record with an error field      *)
(* holding the reason, and after a rate-limit error the error text holds    *)
(* the rate-limit message; for each of the seven topics.                    *)
C5_FallbackHasError ==
    (RunFailed /\ topic \in SevenTopics)
        => /\ "error" \in DOMAIN result.val
           /\ (First = AgentRaises(MsgRateLimit)
                  => result.val["error"] = "Error: " \o MsgRateLimit)

(* C6: in trace mining, once an observation has filled a field, no later    *)
(* observation changes it (unless mining fails as a whole and the fallback  *)
(* replaces the record).                                                    *)
C6_FirstMatchWins ==
    [][\A f \in DOMAIN mrec :
          (mrec[f] # NA /\ mpc' # "caught") => mrec'[f] = mrec[f]]_vars

(* C7: when the agent returns with StepCap or more trace steps, the record  *)
(* is the mined one whatever the output is, a well-formed fenced or bare    *)
(* JSON document included.                                                  *)
C7_CapMines ==
    (/\ Done
     /\ First.kind = "dict"
     /\ Len(IntermediateSteps(First)) >= StepCap)
        => result.val = Stamp(ExtractDataFromSteps(topic, IntermediateSteps(First)))

C7_Witness ==
    /\ Done
    /\ First.kind = "dict"
    /\ Len(First.steps) = StepCap
    /\ First.outkind = "str"
    /\ First.output \in {<<FJ, OBJ_FULL, F>>, <<OBJ_FULL>>}
    /\ result.val = Stamp(ExtractDataFromSteps(topic, First.steps))
    /\ result.val # Stamp(ObjMap(topic, OBJ_FULL))

(* C8: when the output holds a fenced JSON block whose text deserializes,   *)
(* the record is the deserialization of the text between the opening fence  *)
(* and the next fence, whatever text follows the block and even when the    *)
(* output starts with a brace.                                              *)
C8_FencedBlockOnly ==
    (/\ NormalRun
     /\ HasClosingFence(First.output)
     /\ JsonLoads(topic, Between(First.output)).ok)
        => result.val = Stamp(JsonLoads(topic, Between(First.output)).val)

C8_Witness ==
    /\ NormalRun
    /\ First.output = <<OBJ_PART, FJ, OBJ_FULL, F, TXT>>
    /\ result.val = Stamp(ObjMap(topic, OBJ_FULL))

(* C9: whenever no structural parse of the output succeeds, a fenced block  *)
(* that does not deserialize included, and the trace is not empty, the      *)
(* record is the mined one; the fallback is produced only when the trace    *)
(* is empty.                                                                *)
C9_MinedWhenParseFails ==
    (/\ NormalRun
     /\ First.steps # <<>>
     /\ NoStructuralParse(topic, First.output))
        => result.val = Stamp(ExtractDataFromSteps(topic, First.steps))

(* C10: if the agent's output is a mapping and not a string, its values     *)
(* appear in the returned record; it is not turned into a fallback.         *)
C10_MappingAccepted ==
    (/\ Done
     /\ First.kind = "dict"
     /\ First.outkind \in {"map", "absent"}
     /\ Len(IntermediateSteps(First)) < StepCap)
        => \A f \in Fields(topic) :
              result.val[f] = ObjMap(topic, First.output[1])[f]

(* The JSON object that normal processing deserializes from a string        *)
(* output with json.loads: the fenced block's, else the whole output's.     *)
LoadedFrom(t, out) ==
    IF FJ \in Range(out) THEN JsonLoads(t, FencedBlock(out))
    ELSE IF StartsWithBrace(out) THEN JsonLoads(t, out)
    ELSE [ok |-> FALSE, val |-> <<>>]

(* C11: when the agent's structured output deserializes to an object, every *)
(* key of that object, the keys beyond the schema's fields included, is in  *)
(* the record process_satellite returns with the object's value; only the   *)
(* satellite_name key is overwritten.                                       *)
C11_ExtraKeysKept ==
    (NormalRun /\ LoadedFrom(topic, First.output).ok) =>
        LET obj == LoadedFrom(topic, First.output).val
        IN  /\ DOMAIN result.val = DOMAIN obj \cup {"satellite_name"}
            /\ \A k \in DOMAIN obj \ {"satellite_name"} : result.val[k] = obj[k]

C11_Witness ==
    /\ NormalRun
    /\ topic = "gpt_tech"
    /\ First.output = <<FJ, OBJ_FULL, F>>
    /\ "notes" \notin Fields(topic)
    /\ result.val["notes"] = "extra"

(* C12: on every path (structured parse, mining, fallback, exception) the   *)
(* record process_satellite returns has satellite_name equal to the input   *)
(* name, whatever satellite_name the agent's own output held.               *)
C12_NameStamped ==
    Done => /\ "satellite_name" \in DOMAIN result.val
            /\ \A k \in DOMAIN result.val :
                   k = "satellite_name" => result.val[k] = name

C12_Witness ==
    /\ NormalRun
    /\ LoadedFrom(topic, First.output).ok
    /\ "satellite_name" \in DOMAIN LoadedFrom(topic, First.output).val
    /\ LoadedFrom(topic, First.output).val["satellite_name"] # name
    /\ result.val["satellite_name"] = name

(* The last operation of the log after a step that made one. *)
Stepped == Len(log') = Len(log) + 1
LastOp == log'[Len(log')]

(* The last three operations are put(e, t, r1), put(e, t, r2), get(e, t). *)
PutPutGet ==
    /\ Len(log') >= 3
    /\ log'[Len(log') - 2].op = "put"
    /\ log'[Len(log') - 1].op = "put"
    /\ LastOp.op = "get"
    /\ \A i \in {Len(log') - 2, Len(log') - 1} :
          log'[i].e = LastOp.e /\ log'[i].t = LastOp.t

(* C13: after put(e, t, r1) and then put(e, t, r2), get(e, t) returns an     *)
(* entry whose data is exactly r2, and a put leaves the entry of every      *)
(* other (satellite, data type) key as it was.                              *)
C13_LastPutWins ==
    [][Stepped =>
         /\ PutPutGet =>
               /\ ~got'.none
               /\ got'.val.data = log'[Len(log') - 1].r
         /\ LastOp.op = "put" =>
               \A e \in Entities, t \in StoreTypes :
                   <<e, t>> # <<LastOp.e, LastOp.t>> =>
                       GetSatelliteData(data', e, t) = GetSatelliteData(data, e, t)
      ]_vars

C13_Witness ==
    /\ Len(log) = 3
    /\ log[1].op = "put" /\ log[2].op = "put" /\ log[3].op = "get"
    /\ log[1].e = log[3].e /\ log[2].e = log[3].e
    /\ log[1].t = log[3].t /\ log[2].t = log[3].t
    /\ "orbit" \in DOMAIN log[1].r
    /\ "orbit" \notin DOMAIN log[2].r
    /\ ~got.none
    /\ got.val.data = log[2].r

(* C14: a delete_satellite_section of a stored section removes the          *)
(* satellite from get_all_satellites when it was the satellite's only       *)
(* section, and keeps the satellite listed with its other sections when     *)
(* there were others.                                                       *)
C14_LastSectionUnlists ==
    [][(/\ Stepped
        /\ LastOp.op = "delete_section"
        /\ LastOp.e \in DOMAIN data
        /\ LastOp.t \in DOMAIN data[LastOp.e]) =>
           IF DOMAIN data[LastOp.e] = {LastOp.t}
           THEN LastOp.e \notin GetAllSatellites(data')
           ELSE /\ LastOp.e \in GetAllSatellites(data')
                /\ DOMAIN data'[LastOp.e] = DOMAIN data[LastOp.e] \ {LastOp.t}
      ]_vars

C14_Witness ==
    /\ Len(log) = 3
    /\ log[1].op = "put" /\ log[2].op = "put" /\ log[3].op = "delete_section"
    /\ log[1].e = log[3].e /\ log[2].e = log[3].e
    /\ log[1].t = log[3].t /\ log[2].t = log[3].t
    /\ got.val = TRUE
    /\ log[3].e \notin GetAllSatellites(data)

(* The mining has ended, by return or through its except branch. *)
MineEnded == mpc \in {"returned", "caught"}

(* The exception was raised by a rule, on the text of an observation. *)
RuleThrew == mpc = "caught" /\ mtrace[mi].kind = "text"

(* C15: trace mining never raises: for every trace, steps with fewer than   *)
(* two elements, without a length or with a non-string observation          *)
(* included, it returns a record that holds every schema field, and when a  *)
(* mining rule throws on an observation every schema field of the returned  *)
(* record is "NA".                                                          *)
C15_MiningNeverRaises ==
    MineEnded => /\ Fields(mtopic) \subseteq DOMAIN mrec
                 /\ RuleThrew => \A f \in Fields(mtopic) : mrec[f] = NA

C15_Witness ==
    /\ RuleThrew
    /\ mtopic = "gpt_numeric"
    /\ mi = 2
    /\ mtrace[1] = TextStep(<<"ROI", "2.5", "revenue", "7", "http://a">>)
    /\ mtrace[2] = TextStep(<<"roi", "1.2.3">>)
    /\ \A f \in Fields(mtopic) : mrec[f] = NA

(* The source fields of a schema, in the schema's declared field order. *)
SourceNames ==
    {"altitude_source", "orbital_life_source", "orbit_classification_source",
     "payloads_source", "satellite_type_source", "application_source",
     "sensor_specs_source", "breakthrough_source", "user_source_link",
     "purpose_source_link", "sdg_source_link", "return_on_investment_source",
     "tech_source_link"}
        \cup Range(CostSourceOrder) \cup Range(FrugalSourceOrder)
IsSource(f) == f \in SourceNames
SourceOrder(t) == SelectSeq(Schema(t), IsSource)

(* The loop went through one more step without an exception. *)
MinedOneMore == mpc = "loop" /\ mi' = mi + 1 /\ mpc' = "loop"

(* C16: in trace mining, for every bot whose schema has source fields, an   *)
(* observation that holds a URL writes it to the first source field, in the *)
(* schema's field order, that is still "NA", and every other source field   *)
(* keeps its value: one observation fills at most one source field and a    *)
(* filled one is never overwritten.                                         *)
C16_UrlToFirstFreeSource ==
    [][MinedOneMore =>
         LET step == mtrace[mi']
             order == SourceOrder(mtopic)
             free == {i \in DOMAIN order : mrec[order[i]] = NA}
             url == IF step.kind = "text" THEN UrlSearch(step.obs) ELSE NoMatch
         IN  \A i \in DOMAIN order :
                 mrec'[order[i]] =
                     IF url.ok /\ free # {} /\ i = SetMin(free)
                     THEN url.val ELSE mrec[order[i]]
      ]_vars

(* C17: any two records the fallback producer of a bot returns have the     *)
(* same keys and the same value in every field but error, and every schema  *)
(* field of them is "NA".                                                   *)
C17_FallbackIsConstant ==
    \A i \in DOMAIN fallbacks :
        /\ \A f \in Fields(topic) :
               f \in DOMAIN fallbacks[i] /\ fallbacks[i][f] = NA
        /\ \A j \in DOMAIN fallbacks :
               /\ DOMAIN fallbacks[i] = DOMAIN fallbacks[j]
               /\ \A f \in DOMAIN fallbacks[i] \ {"error"} :
                      fallbacks[i][f] = fallbacks[j][f]

C17_Witness ==
    /\ topic = "gpt_frugal"
    /\ Len(fallbacks) = 2
    /\ fallbacks[1]["error"] = "Parsing failed"
    /\ fallbacks[2]["error"] = "Error: " \o MsgRateLimit

(* C18: one process_satellite call invokes the agent at least once and at   *)
(* most stop_after_attempt times (5 for basic and tech, 3 for the others);  *)
(* the agent is invoked again only after an attempt that raised, and the    *)
(* retry decorator re-raises only after the last attempt.                   *)
C18_AttemptsBounded ==
    [][/\ pc' = "Retrying" =>
             attempt'.raised /\ Len(calls') < StopAfter(topic)
       /\ pc' = "Reraised" =>
             attempt'.raised /\ Len(calls') = StopAfter(topic)
       /\ Len(calls') > Len(calls) =>
             /\ Len(calls') <= StopAfter(topic)
             /\ calls # <<>> => attempt.raised
       /\ pc' = "Done" =>
             Len(calls') >= 1 /\ Len(calls') <= StopAfter(topic)
      ]_vars

C18_Witness ==
    /\ Done
    /\ topic = "tech"
    /\ Len(calls) = 1
    /\ First = AgentRaises(MsgRateLimit)
    /\ Len(calls) < StopAfter(topic)

(* C19: every record a tab of the application holds for the selected        *)
(* satellite, for each of the eight tabs, is in the record store under the  *)
(* satellite and the tab's key, so that a later session loads it again      *)
(* (between script runs: no put is still to be made).                       *)
C19_GatheredIsStored ==
    (NoRun /\ selected # NoSatellite /\ selected \in DOMAIN session) =>
        \A key \in Tabs :
            Truthy(session[selected][key]) =>
                /\ ~GetSatelliteData(data, selected, key).none
                /\ GetSatelliteData(data, selected, key).val.data
                       = session[selected][key]

(* C20: a bot run started from a tab changes the record store by at most    *)
(* one put, of the record the run returned, under the selected satellite    *)
(* and the tab's key.  The run itself leaves the store as it was, and       *)
(* leaves a put to make only of a record it returned; the put that the      *)
(* script run then makes is of that record under that key, and every other  *)
(* entry stays as it was.                                                   *)
C20_RunPutsOnce ==
    [][/\ (Stepped /\ LastOp.op = "gather") =>
             /\ data' = data /\ file' = file
             /\ ~Truthy(LastOp.r) => pending' = NoneVal
             /\ pending' # NoneVal =>
                    pending'.val = Op("put", LastOp.e, LastOp.t, LastOp.r)
       /\ (Stepped /\ LastOp.op = "store") =>
             /\ log[Len(log)].op = "gather"
             /\ <<LastOp.e, LastOp.t, LastOp.r>>
                    = <<log[Len(log)].e, log[Len(log)].t, log[Len(log)].r>>
             /\ \A e \in DOMAIN data \cup DOMAIN data', t \in Tabs :
                    <<e, t>> # <<LastOp.e, LastOp.t>> =>
                        GetSatelliteData(data', e, t) = GetSatelliteData(data, e, t)
             /\ GetSatelliteData(data', LastOp.e, LastOp.t)
                    = Some(Entry(LastOp.r, Now(log)))
             /\ pending' = NoneVal
       /\ (Stepped /\ LastOp.op = "stopped") => data' = data /\ file' = file
      ]_vars

C20_Witness ==
    /\ Len(log) = 4
    /\ log[2].op = "gather" /\ log[2].t = "launch_cost_info" /\ ~Truthy(log[2].r)
    /\ log[3].op = "gather" /\ log[3].t = "launch_cost_info" /\ Truthy(log[3].r)
    /\ log[4].op = "store"
    /\ DOMAIN data[selected] = {"basic_info", "launch_cost_info"}
    /\ data[selected]["launch_cost_info"] = Entry(log[3].r, 4)
    /\ data[selected]["basic_info"] \in {d[selected]["basic_info"] : d \in StoredBefore \ {EmptyDict}}

(* The records the strategies give when tried in the order mapping, fenced  *)
(* block, whole string, parser, each failure handing over to the next, and  *)
(* the trace or the fallback response only when all of them failed.         *)
InOrder(t, resp) ==
    IF resp.outkind = "map" THEN {ObjMap(t, resp.output[1])}
    ELSE IF FJ \in Range(resp.output) /\ JsonLoads(t, FencedBlock(resp.output)).ok
    THEN {JsonLoads(t, FencedBlock(resp.output)).val}
    ELSE IF StartsWithBrace(resp.output) /\ JsonLoads(t, resp.output).ok
    THEN {JsonLoads(t, resp.output).val}
    ELSE {IF p.raised
          THEN IF resp.steps # <<>> THEN ExtractDataFromSteps(t, resp.steps)
               ELSE CreateFallbackResponse(t, "Parsing failed")
          ELSE p.val : p \in ParserParse(t, resp.output)}

(* C21: the record of a run below the step cap comes from the first of the  *)
(* strategies mapping, fenced block, whole-string JSON, parser that         *)
(* succeeds; a strategy that fails hands over to the next, and extraction   *)
(* fails only when all of them failed.                                      *)
C21_StrategiesInOrder ==
    (/\ Done
     /\ First.kind = "dict"
     /\ First.outkind \in {"str", "map"}
     /\ Len(First.steps) < StepCap)
        => \E rec \in InOrder(topic, First) : result.val = Stamp(rec)

(* C22: the waits between successive attempts never decrease and each lies
   between 4 and 60 seconds, for every topic, whichever exponent convention
   the retry library uses. *)
C22_WaitsClampedAndMonotone ==
    /\ \A i \in 1..Len(waits.seq) :
          waits.seq[i] >= WaitMin /\ waits.seq[i] <= WaitMax
    /\ \A i \in 1..(Len(waits.seq) - 1) : waits.seq[i] <= waits.seq[i + 1]

(* Within the attempts of a five-attempt bot the waits already grow, and
   further on they reach the cap. *)
C22_Witness ==
    /\ topic = "basic"
    /\ Len(waits.seq) >= StopAfter(topic) - 1
    /\ waits.seq[1] = WaitMin
    /\ waits.seq[StopAfter(topic) - 1] > WaitMin
    /\ Len(waits.seq) = MaxAttemptNo
    /\ waits.seq[MaxAttemptNo] = WaitMax

(* What a process_satellite call returns when its one agent invocation      *)
(* raises with message m, and whether the decorator would call again.       *)
FailedRuns(t, nm, m) ==
    {[again |-> AfterAttempt(t, 1, r) # "Returned",
      rec |-> ProcessSatellite(t, nm, r).val] :
        r \in ProcessWithRetryBody(t, AgentRaises(m))}

(* C23: the class of an agent failure message (max-iterations, timeout,     *)
(* rate-limited, other) reaches only the log and the error text: a run      *)
(* whose agent invocation raised made one invocation and returned a record  *)
(* whose schema fields equal, field by field, those of the run for any      *)
(* other failure message, none of which invokes the agent again.            *)
C23_FailureClassOnlyInError ==
    (Done /\ First.kind = "raise") =>
        /\ Len(calls) = 1
        /\ \A m \in AgentErrors : \A o \in FailedRuns(topic, name, m) :
              /\ ~o.again
              /\ \A f \in Fields(topic) : o.rec[f] = result.val[f]

(* A run that failed with a timeout message returned the timeout reason,    *)
(* where a rate-limit message would have given another error text.          *)
C23_Witness ==
    /\ Done
    /\ topic = "gpt_frugal"
    /\ First = AgentRaises(MsgTimeout)
    /\ result.val["error"] = "Execution timeout"
    /\ \A o \in FailedRuns(topic, name, MsgRateLimit) :
          o.rec["error"] # result.val["error"]

(* The steps of a run in their order: the agent is invoked from Idle (or    *)
(* after an attempt that raised), the attempt ends in a return or a raise,  *)
(* process_satellite then returns a record, and nothing follows Done.       *)
RunOrder ==
    /\ pc = "Idle" => pc' = "Invoking" /\ Len(calls') = 1
    /\ pc = "Invoking" =>
          /\ pc' \in {"Returned", "Retrying", "Reraised"}
          /\ calls' = calls
    /\ pc = "Retrying" => pc' = "Invoking"
    /\ pc \in {"Returned", "Reraised"} =>
          /\ pc' = "Done"
          /\ calls' = calls
          /\ ~result'.raised /\ result'.isdict
          /\ result'.val["satellite_name"] = name
    /\ pc = "Done" => pc' = "Done" /\ calls' = calls /\ result' = result

(* C24: when every agent invocation returns or raises, every                *)
(* process_satellite call reaches Done and returns a record; the run goes   *)
(* from Idle to Invoking, to the end of the attempt (parsed, mined or       *)
(* failed), to Done, and the agent is not invoked after Done.               *)
C24_RunTerminates ==
    /\ <>Done
    /\ [][RunOrder]_vars

(* A finished run whose one invocation raised and that returned a record. *)
C24_Witness ==
    /\ Done
    /\ Len(calls) = 1
    /\ First.kind = "raise"
    /\ topic = "gpt_purpose"
    /\ result.isdict
    /\ result.val["satellite_name"] = name

(* The satellite e has a record under some data type in the store d. *)
HasRecord(d, e) == \E t \in StoreTypes : ~GetSatelliteData(d, e, t).none

(* C25: in every state reached from the empty store by puts, section        *)
(* deletions and satellite deletions (and reads), a satellite is listed     *)
(* exactly when a record is stored for it under some data type, in memory   *)
(* and in the file.                                                         *)
C25_ListedIffRecord ==
    \A e \in Entities :
        /\ e \in GetAllSatellites(data) <=> HasRecord(data, e)
        /\ e \in GetAllSatellites(LoadData(file)) <=> HasRecord(LoadData(file), e)

(* Two satellites were stored and the only section of the first deleted:    *)
(* the second alone is listed.                                              *)
C25_Witness ==
    /\ Len(log) = 3
    /\ log[1].op = "put" /\ log[2].op = "put" /\ log[3].op = "delete_section"
    /\ log[1].e # log[2].e
    /\ log[3].e = log[1].e /\ log[3].t = log[1].t
    /\ GetAllSatellites(data) = {log[2].e}
    /\ HasRecord(data, log[2].e)

(* The step is a put that repeats the put made just before it. *)
PutRepeated ==
    /\ Stepped
    /\ LastOp.op = "put"
    /\ log # <<>>
    /\ log[Len(log)] = LastOp

(* C26: a put of the same record under the same satellite and data type as  *)
(* the put just before it leaves the data of every entry as the first put   *)
(* left it; only the last_updated of the entry written may differ.          *)
C26_PutTwiceAsOnce ==
    [][PutRepeated =>
         /\ DOMAIN data' = DOMAIN data
         /\ \A e \in DOMAIN data :
               /\ DOMAIN data'[e] = DOMAIN data[e]
               /\ \A t \in DOMAIN data[e] :
                     /\ data'[e][t].data = data[e][t].data
                     /\ <<e, t>> # <<LastOp.e, LastOp.t>> =>
                           data'[e][t] = data[e][t]
         /\ LoadData(file') = data'
      ]_vars

(* The same put was made twice: the entry holds the record, with the time   *)
(* of the second put.                                                       *)
C26_Witness ==
    /\ Len(log) = 2
    /\ log[1].op = "put"
    /\ log[2] = log[1]
    /\ data[log[1].e][log[1].t].data = log[1].r
    /\ data[log[1].e][log[1].t].last_updated = Now(<<log[1]>>)

(* Every entry of the store d sits under a satellite and a data type and is *)
(* a mapping with the two keys data and last_updated.                       *)
WellNested(d) ==
    \A e \in DOMAIN d :
        /\ e \in Entities
        /\ \A t \in DOMAIN d[e] :
              /\ t \in StoreTypes
              /\ DOMAIN d[e][t] = {"data", "last_updated"}
              /\ d[e][t].data \in StoreRecords

(* C28: after any sequence of store operations from the empty store, every  *)
(* stored entry is a mapping with exactly the keys data and last_updated,   *)
(* nested under the satellite name and then the data type, in memory and in *)
(* the file.                                                                *)
C28_EntriesWellNested ==
    /\ WellNested(data)
    /\ WellNested(LoadData(file))

(* Both data types of one satellite were put, then read back whole. *)
C28_Witness ==
    /\ Len(log) = 3
    /\ log[1].op = "put" /\ log[2].op = "put" /\ log[3].op = "get"
    /\ log[1].e = log[2].e /\ log[1].t # log[2].t
    /\ log[3].e = log[1].e /\ log[3].t = NoType
    /\ ~got.none
    /\ DOMAIN got.val = StoreTypes
    /\ \A t \in StoreTypes : DOMAIN got.val[t] = {"data", "last_updated"}

(* C29: a section deletion changes nothing but the one entry (and removes   *)
(* the satellite when that was its last section): every other data type of  *)
(* the satellite and every other satellite keep their entries.  A satellite *)
(* deletion removes every entry of the satellite and leaves every other     *)
(* satellite as it was.                                                     *)
C29_DeleteFrame ==
    [][Stepped =>
         /\ LastOp.op = "delete_section" =>
               /\ GetSatelliteData(data', LastOp.e, LastOp.t).none
               /\ \A e \in Entities, t \in StoreTypes :
                     <<e, t>> # <<LastOp.e, LastOp.t>> =>
                         GetSatelliteData(data', e, t) = GetSatelliteData(data, e, t)
               /\ (got'.val = TRUE) <=> ~GetSatelliteData(data, LastOp.e, LastOp.t).none
         /\ LastOp.op = "delete" =>
               /\ LastOp.e \notin GetAllSatellites(data')
               /\ \A t \in StoreTypes : GetSatelliteData(data', LastOp.e, t).none
               /\ \A e \in Entities \ {LastOp.e} :
                     GetSatelliteData(data', e, NoType) = GetSatelliteData(data, e, NoType)
         /\ LastOp.op \in {"delete_section", "delete"} =>
               (got'.val = TRUE => LoadData(file') = data')
      ]_vars

(* Two satellites were stored and the first deleted: the second keeps its   *)
(* entry, with the time of its put.                                         *)
C29_Witness ==
    /\ Len(log) = 3
    /\ log[1].op = "put" /\ log[2].op = "put" /\ log[3].op = "delete"
    /\ log[1].e # log[2].e
    /\ log[3].e = log[1].e
    /\ got.val = TRUE
    /\ GetSatelliteData(data, log[1].e, NoType).none
    /\ GetSatelliteData(data, log[2].e, log[2].t) = Some(Entry(log[2].r, Now(<<log[1]>>)))

(* Both handles have saved. *)
BothSaved == handles # <<>> /\ \A h \in Handles : handles[h].pc = "saved"

(* C27: when two runs persist their records under different (satellite,     *)
(* data type) keys through two store handles on the same file, then in      *)
(* every interleaving of their load, update and save steps the file holds   *)
(* both records once both have saved.                                       *)
C27_BothRecordsPersisted ==
    BothSaved =>
        \A h \in Handles :
            /\ ~GetSatelliteData(LoadData(file), handles[h].key[1], handles[h].key[2]).none
            /\ GetSatelliteData(LoadData(file), handles[h].key[1],
                                handles[h].key[2]).val.data = HandleRecord(h)

(* upload_to_gsheet returned True: a frame was handed to the sheet. *)
Uploaded == export # <<>> /\ export.pc = "uploaded" /\ export.ret

(* The row of the satellite in that frame. *)
UploadedRow == export.frame[SetMin(ExistingIndex(export.frame, name))]

(* The field f of the exported record is flattened in the row: one column   *)
(* f_k per key k of the object, holding the object's value for k, and no    *)
(* cell holding the object itself.                                          *)
Flattened(rec, row, f) ==
    /\ \A k \in DOMAIN rec[f].d :
          /\ SubColumn(f, k) \in DOMAIN row
          /\ row[SubColumn(f, k)] = rec[f].d[k]
    /\ f \in DOMAIN row => ~row[f].isdict

(* C30: in the row that is uploaded (the satellite's row of the frame       *)
(* handed to the sheet), every field of the exported record     *)
(* whose value is a nested object is flattened into columns named           *)
(* field_childfield, on the data sheet (Sheet1) as on the GPT sheet.        *)
C30_NestedFieldsFlattened ==
    Uploaded =>
        \A f \in DOMAIN Exported(export.sheet, export.session) :
            Exported(export.sheet, export.session)[f].isdict =>
                Flattened(Exported(export.sheet, export.session), UploadedRow, f)

(* The handle that made the step, and its self.data before and after. *)
UsedHandle == CHOOSE h \in Handles : handles'[h].pc = "used"
Before == ManagerData(handles, data, UsedHandle)
After == ManagerData(handles', data', UsedHandle)

(* The key of the operation is not in the store d. *)
AbsentKey(d, op) ==
    \/ op.e \notin DOMAIN d
    \/ op.t # NoType /\ op.t \notin DOMAIN d[op.e]

(* C31: store operations on absent keys are harmless.  A get never changes  *)
(* the handle's store or the file and returns None for an unknown satellite *)
(* or data type; a section or satellite deletion of a key that is not       *)
(* stored returns False, leaves self.data as it was and does not write the  *)
(* file, even when the file holds something else than self.data.            *)
C31_AbsentKeysHarmless ==
    [][(Stepped /\ LastOp.op \in {"get", "delete_section", "delete"}) =>
         /\ LastOp.op = "get" =>
               /\ After = Before /\ file' = file
               /\ AbsentKey(Before, LastOp) => got'.none
         /\ (LastOp.op # "get" /\ AbsentKey(Before, LastOp)) =>
               /\ got' = Some(FALSE)
               /\ After = Before
               /\ file' = file
      ]_vars

(* The shared manager, whose self.data differs from the file, deleted a     *)
(* section it does not hold: the file still holds what the thread that      *)
(* closed the file last had dumped.                                         *)
C31_Witness ==
    /\ log # <<>>
    /\ log[Len(log)].op = "delete_section"
    /\ got = Some(FALSE)
    /\ \E h \in Handles :
          /\ ~handles[h].own
          /\ handles[h].pc = "used"
          /\ Readable(file)
          /\ LoadData(file) # ManagerData(handles, data, h)
          /\ ~GetSatelliteData(LoadData(file), log[Len(log)].e, log[Len(log)].t).none

(* The step is an operation that reports success: a put, or a deletion that *)
(* returned True.                                                           *)
Succeeded ==
    /\ Stepped
    /\ \/ LastOp.op = "put"
       \/ LastOp.op \in {"delete", "delete_section"} /\ got' = Some(TRUE)

(* C32: after every store operation that reports success (a put, a section  *)
(* or satellite deletion that returned True) the file holds exactly the     *)
(* handle's self.data, and a handle opened afterwards holds that state.     *)
C32_FileEqualsMemory ==
    [][/\ Succeeded => LoadData(file') = data'
       /\ (Stepped /\ LastOp.op = "reopen") => data' = LoadData(file) /\ file' = file
      ]_vars

(* Two puts under one satellite and then a new handle: it holds both        *)
(* entries, with the times of their puts.                                   *)
C32_Witness ==
    /\ Len(log) = 3
    /\ log[1].op = "put" /\ log[2].op = "put" /\ log[3].op = "reopen"
    /\ log[1].e = log[2].e /\ log[1].t # log[2].t
    /\ data = LoadData(file)
    /\ GetSatelliteData(data, log[1].e, log[1].t) = Some(Entry(log[1].r, Now(<<>>)))
    /\ GetSatelliteData(data, log[2].e, log[2].t) = Some(Entry(log[2].r, Now(<<log[1]>>)))

(* C33: whenever the record process_satellite returns has an error key,     *)
(* every schema field of it is "NA"; a record with a mined or parsed value  *)
(* has no error key.                                                        *)
C33_ErrorMeansAllNA ==
    (Done /\ "error" \in DOMAIN result.val) =>
        \A f \in Fields(topic) : f \in DOMAIN result.val /\ result.val[f] = NA

(* A step the loop passes over: fewer than two elements, or an observation  *)
(* that is not a str.                                                       *)
SkippedStep(step) == step \in {ShortStep, NonStrStep}

(* The trace without its i-th step. *)
WithoutStep(steps, i) == SubSeq(steps, 1, i - 1) \o SubSeq(steps, i + 1, Len(steps))

(* C34: a step with fewer than two elements, or whose observation is not a  *)
(* string, leaves the mined record as it is (the iteration changes nothing  *)
(* and goes on), and what the mining returns is what it returns for the     *)
(* trace without that step.                                                 *)
C34_SkippedStepIsNoOp ==
    /\ [][(mpc = "loop" /\ mi' = mi + 1 /\ SkippedStep(mtrace[mi']))
            => (mrec' = mrec /\ mpc' = "loop")]_vars
    /\ [](MineEnded =>
            \A i \in DOMAIN mtrace :
                SkippedStep(mtrace[i])
                    => mrec = ExtractDataFromSteps(mtopic, WithoutStep(mtrace, i)))

(* Mining is over for a trace of a step without a string observation        *)
(* followed by an observation of which something was mined.                 *)
C34_Witness ==
    /\ mpc = "returned"
    /\ Len(mtrace) = 2
    /\ mtrace[1] = NonStrStep
    /\ mtrace[2].kind = "text"
    /\ mrec # AllNA(mtopic)

(* The steps of the trace the loop has been through. *)
StepsDone == {mtrace[i] : i \in 1..mi}

(* An observation that mentions "launch success" together with a failure    *)
(* word.                                                                    *)
ReportsFailure(step) ==
    /\ step.kind = "text"
    /\ Contains(ObsLower(step.obs), "launch success")
    /\ Contains(ObsLower(step.obs), "fail")

(* C35: in launch-cost trace mining launch_success is "NA" or 1 at every    *)
(* point of every trace, also after an observation that mentions "launch    *)
(* success" with a failure word: it is never 0.                             *)
C35_LaunchSuccessNeverZero ==
    mtopic = "cost" => mrec["launch_success"] \in {NA, "1"}

(* Launch-cost mining has returned for a trace with an observation that     *)
(* reports a failure, and launch_success is 1.                              *)
C35_Witness ==
    /\ mtopic = "cost"
    /\ mpc = "returned"
    /\ \E s \in StepsDone : ReportsFailure(s)
    /\ mrec["launch_success"] = "1"

(* The two fields basic-info mining writes. *)
BasicMinedFields == {"altitude", "launch_orbit_classification"}

(* C36: in basic-info trace mining, at every point of every trace, altitude *)
(* and launch_orbit_classification are "NA" or "Partial", and the six other *)
(* fields of the record (the four source fields, orbital_life_years,        *)
(* number_of_payloads) are "NA".                                            *)
C36_BasicMinesTwoFields ==
    mtopic = "basic" =>
        /\ DOMAIN mrec = BasicMinedFields \cup
                {"altitude_source", "orbital_life_source",
                 "orbit_classification_source", "payloads_source",
                 "orbital_life_years", "number_of_payloads"}
        /\ \A f \in BasicMinedFields : mrec[f] \in {NA, "Partial"}
        /\ \A f \in DOMAIN mrec \ BasicMinedFields : mrec[f] = NA

(* Basic-info mining has returned with both fields "Partial" for a trace    *)
(* with an observation that holds a URL.                                    *)
C36_Witness ==
    /\ mtopic = "basic"
    /\ mpc = "returned"
    /\ \A f \in BasicMinedFields : mrec[f] = "Partial"
    /\ \E s \in StepsDone : s.kind = "text" /\ UrlSearch(s.obs).ok

(* The values of the purpose fields: the integers 1..5, as texts. *)
PurposeValues == {"1", "2", "3", "4", "5"}

(* C37: in purpose trace mining, after every processed observation (and at  *)
(* the start and the return), purpose and purpose_category_number hold the  *)
(* same value, "NA" or an integer in 1..5.                                  *)
C37_PurposeFieldsAgree ==
    mtopic = "gpt_purpose" =>
        /\ mrec["purpose"] = mrec["purpose_category_number"]
        /\ mrec["purpose"] \in {NA} \cup PurposeValues

(* Purpose mining has returned after two observations that name different   *)
(* purposes, and the fields hold the second one's number.                   *)
C37_Witness ==
    /\ mtopic = "gpt_purpose"
    /\ mpc = "returned"
    /\ Len(mtrace) = 2
    /\ \A i \in 1..2 : mtrace[i].kind = "text"
    /\ PurposeNumber(ObsLower(mtrace[1].obs)) \in PurposeValues
    /\ PurposeNumber(ObsLower(mtrace[2].obs)) \in
            PurposeValues \ {PurposeNumber(ObsLower(mtrace[1].obs))}
    /\ mrec["purpose_category_number"] = PurposeNumber(ObsLower(mtrace[2].obs))

(* The output has an opening fence and no fence after it. *)
UnclosedFence(out) == FJ \in Range(out) /\ ~HasClosingFence(out)

(* The text from the opening fence to the end of the output. *)
ToEnd(out) == SubSeq(out, OpenAt(out) + 1, Len(out))

(* C38: when the output has an opening fence with no closing fence after    *)
(* it, the block runs to the end of the output: if the text from the fence  *)
(* to the end is a JSON object, a complete object that ends the output      *)
(* included, the record is that object.                                     *)
C38_UnclosedBlockRunsToEnd ==
    (/\ NormalRun
     /\ UnclosedFence(First.output)
     /\ JsonLoads(topic, ToEnd(First.output)).ok)
        => result.val = Stamp(JsonLoads(topic, ToEnd(First.output)).val)


====
